---- MODULE Spec2Model ----
(***************************************************************************)
(* A model of the local judge core of cf-parser.                           *)
(*                                                                         *)
(* Runner.run (src/src/runners.py) is an orchestrator thread plus one      *)
(* thread per file to compile and one thread per run unit.  Python lists   *)
(* are 0-based; the sequences below are 1-based, so index i here is index  *)
(* i - 1 in the source.                                                    *)
(*                                                                         *)
(* Atomicity.  A task's blocking calls (Execution.compile, Execution.run,  *)
(* checker.check) touch nothing another thread reads, so each is taken     *)
(* together with the slot write that follows it; the put on the queue is a *)
(* step of its own.  The orchestrator's queue.get() is taken together with *)
(* the statements up to the next get(): every write or put of a task that  *)
(* falls between them commutes with the get and can be placed before it.   *)
(***************************************************************************)
EXTENDS Integers, Sequences, FiniteSets, TLC

\* ------------------------------------------------------------------------
\* Bounds of the model.
MaxTestcases == 2
MaxSubtests == 2
MaxUnits == 2
\* The keystrokes of the editor sessions on one testcase that are followed.
MaxEdits == 1
\* The lines of a scraped output, and the tokens of an output a checker reads.
MaxLines == 5
MaxTokens == 2

\* ------------------------------------------------------------------------
\* Enumerations.

CompileVerdict == {"COMPILING", "SUCCESS", "COMPILATION_ERROR"}

RunVerdict ==
  {"RUNNING", "ACCEPTED", "WRONG_ANSWER", "RUNTIME_ERROR", "TIME_LIMIT_EXCEEDED",
   "CHECKER_RUNTIME_ERROR", "CHECKER_TIME_LIMIT_EXCEEDED"}

RunResultType == {"SUCCESS", "RUNTIME_ERROR", "TIME_LIMIT_EXCEEDED"}

CheckerResultType ==
  {"ACCEPTED", "WRONG_ANSWER", "CHECKER_RUNTIME_ERROR", "CHECKER_TIME_LIMIT_EXCEEDED"}

TestCaseMode == {"ONE", "MULTIPLE"}

\* The one_char_name of the three checkers: tokens, yes/no, custom.
CheckerNames == {"t", "y", "c"}

\* The time limits a run is given, in tenths of a second (the time limit
\* argument of the commands is a float of at least 0.1).
TimeLimits == {1, 2}

\* Exit codes a child process is observed with: success, a failure, and the
\* code the timeout wrapper returns.
CompileReturnCodes == {0, 1}
RunReturnCodes == {0, 1, 124}

\* ------------------------------------------------------------------------
\* Strings.  A str is a sequence of characters, a character a string of length
\* one; the operators are the str methods the testcases and the scraper use.

\* The characters str.split() and str.splitlines() separate on, of the ones
\* that occur in the files followed here.
Whitespace == {" ", "\n"}

DecimalDigits == <<"0", "1", "2", "3", "4", "5", "6", "7", "8", "9">>

startswith(s, prefix) ==
  /\ Len(s) >= Len(prefix)
  /\ SubSeq(s, 1, Len(prefix)) = prefix

endswith(s, suffix) ==
  /\ Len(s) >= Len(suffix)
  /\ SubSeq(s, Len(s) - Len(suffix) + 1, Len(s)) = suffix

removeprefix(s, prefix) ==
  IF startswith(s, prefix) THEN SubSeq(s, Len(prefix) + 1, Len(s)) ELSE s

removesuffix(s, suffix) ==
  IF endswith(s, suffix) THEN SubSeq(s, 1, Len(s) - Len(suffix)) ELSE s

\* str.find: the lowest 0-based position from start on at which sub occurs
\* in s, -1 if there is none.
RECURSIVE find_from(_, _, _)
find_from(s, sub, start) ==
  IF start + Len(sub) > Len(s) THEN -1
  ELSE IF SubSeq(s, start + 1, start + Len(sub)) = sub THEN start
  ELSE find_from(s, sub, start + 1)

find(s, sub) == find_from(s, sub, 0)

\* str.count: the number of non-overlapping occurrences, left to right.
RECURSIVE count_from(_, _, _)
count_from(s, sub, start) ==
  LET i == find_from(s, sub, start)
  IN  IF i = -1 THEN 0 ELSE 1 + count_from(s, sub, i + Len(sub))

count(s, sub) == count_from(s, sub, 0)

\* str.split(sep): the pieces between the non-overlapping occurrences of sep.
RECURSIVE split_from(_, _, _)
split_from(s, sep, start) ==
  LET i == find_from(s, sep, start)
  IN  IF i = -1
      THEN <<SubSeq(s, start + 1, Len(s))>>
      ELSE <<SubSeq(s, start + 1, i)>> \o split_from(s, sep, i + Len(sep))

split(s, sep) == split_from(s, sep, 0)

\* str.split(): the maximal runs of characters that are not whitespace.
\* token is the run that the characters before s have begun.
RECURSIVE split_runs(_, _)
split_runs(s, token) ==
  IF s = <<>> THEN (IF token = <<>> THEN <<>> ELSE <<token>>)
  ELSE IF Head(s) \in Whitespace
  THEN (IF token = <<>> THEN <<>> ELSE <<token>>) \o split_runs(Tail(s), <<>>)
  ELSE split_runs(Tail(s), Append(token, Head(s)))

split_whitespace(s) == split_runs(s, <<>>)

\* str.splitlines(): the lines without their line ends, no empty last line.
splitlines(s) ==
  IF s = <<>> THEN <<>> ELSE split(removesuffix(s, <<"\n">>), <<"\n">>)

\* str.isdigit(): not empty and digits only.
isdigit(s) ==
  /\ s # <<>>
  /\ \A k \in 1..Len(s) : \E d \in 1..Len(DecimalDigits) : s[k] = DecimalDigits[d]

digit_value(c) == (CHOOSE d \in 1..Len(DecimalDigits) : DecimalDigits[d] = c) - 1

\* int(s) of a str of digits.
RECURSIVE int(_)
int(s) ==
  IF s = <<>> THEN 0
  ELSE 10 * int(SubSeq(s, 1, Len(s) - 1)) + digit_value(s[Len(s)])

\* str(n) of a natural number.
RECURSIVE str(_)
str(n) ==
  IF n < 10 THEN <<DecimalDigits[n + 1]>>
  ELSE str(n \div 10) \o <<DecimalDigits[(n % 10) + 1]>>

\* str.strip(chars).
RECURSIVE lstrip(_, _)
lstrip(s, chars) ==
  IF s # <<>> /\ Head(s) \in chars THEN lstrip(Tail(s), chars) ELSE s

RECURSIVE rstrip(_, _)
rstrip(s, chars) ==
  IF s # <<>> /\ s[Len(s)] \in chars
  THEN rstrip(SubSeq(s, 1, Len(s) - 1), chars) ELSE s

strip(s, chars) == rstrip(lstrip(s, chars), chars)

\* sep.join(strs).
RECURSIVE join(_, _)
join(sep, strs) ==
  IF strs = <<>> THEN <<>>
  ELSE IF Len(strs) = 1 THEN strs[1]
  ELSE strs[1] \o sep \o join(sep, Tail(strs))

\* str.lower(), on the letters of the words the scraper looks for.
lower_char(c) ==
  CASE c = "Y" -> "y" [] c = "E" -> "e" [] c = "S" -> "s"
    [] c = "N" -> "n" [] c = "O" -> "o" [] OTHER -> c

lower(s) == [k \in 1..Len(s) |-> lower_char(s[k])]

\* ------------------------------------------------------------------------
\* Execution (src/src/execution.py).

\* CompileResult.success: the compiler exited with code 0.
Execution_compile(return_code) == return_code = 0

\* RunResult.result_type from the exit code of `timeout <limit> <file>`.
Execution_run(return_code) ==
  IF return_code = 0 THEN "SUCCESS"
  ELSE IF return_code \notin {0, 124} THEN "RUNTIME_ERROR"
  ELSE "TIME_LIMIT_EXCEEDED"

\* The exit code of `timeout <limit> <file>`: 124 when the wrapper stopped
\* the program at the deadline, the program's own exit code otherwise.
timeout(stopped, return_code) == IF stopped THEN 124 ELSE return_code

\* RunResult(result_type, output).
RunResult(result_type, output) == [result_type |-> result_type, output |-> output]

\* Execution.run on a program that the wrapper stopped or that exited by
\* itself with return_code, having written stdout.
Execution_run_result(stopped, return_code, stdout) ==
  RunResult(Execution_run(timeout(stopped, return_code)), stdout)

\* ------------------------------------------------------------------------
\* Checkers (src/src/checkers.py).

\* checker.checker_file is not None: only the custom checker has a file.
checker_file_present(name) == name = "c"

\* CheckerCustom.check: the result type from the checker binary's run.
CheckerCustom_check(return_code, output_empty) ==
  IF Execution_run(return_code) = "SUCCESS"
  THEN IF output_empty THEN "ACCEPTED" ELSE "WRONG_ANSWER"
  ELSE IF Execution_run(return_code) = "RUNTIME_ERROR" THEN "CHECKER_RUNTIME_ERROR"
  ELSE "CHECKER_TIME_LIMIT_EXCEEDED"

\* The result types checker.check can return.  The token and yes/no checkers
\* compare strings and return ACCEPTED or WRONG_ANSWER only.
check_results(name) ==
  IF name = "c"
  THEN {CheckerCustom_check(rc, e) : rc \in RunReturnCodes, e \in BOOLEAN}
  ELSE {"ACCEPTED", "WRONG_ANSWER"}

\* An Optional[str]: None, or a str.
NoneStr == [is_none |-> TRUE, str |-> <<>>]
SomeStr(s) == [is_none |-> FALSE, str |-> s]

\* CheckerResult(result_type, wrong_answer_reason).
CheckerResult(result_type, wrong_answer_reason) ==
  [result_type |-> result_type, wrong_answer_reason |-> wrong_answer_reason]

\* The reasons of the token and the yes/no checker.  The literal text of an
\* f-string is kept as one element of the str it builds.
reason_token_count(expected_len, user_len) ==
  <<"Expected ">> \o str(expected_len) \o <<" tokens, got ">> \o str(user_len)

reason_token(expected_token, user_token, token_number) ==
  <<"Expected \"">> \o expected_token \o <<"\", got \"">> \o user_token
    \o <<"\" at token ">> \o str(token_number)

reason_yes_no(user_token, token_number) ==
  <<"Expected \"yes\"/\"no\", got \"">> \o user_token
    \o <<"\" at token ">> \o str(token_number)

\* Mutant of CheckerTokens_check: the tokens both outputs have are compared
\* before the token counts.
CheckerTokens_check_values_first(io_input, expected_output, user_output) ==
  LET expected_tokens == split_whitespace(expected_output)
      user_tokens == split_whitespace(user_output)
      common == IF Len(expected_tokens) < Len(user_tokens)
                THEN Len(expected_tokens) ELSE Len(user_tokens)
      wrong == {k \in 1..common : expected_tokens[k] # user_tokens[k]}
      first == CHOOSE k \in wrong : \A j \in wrong : k <= j
  IN  IF expected_tokens = user_tokens THEN CheckerResult("ACCEPTED", NoneStr)
      ELSE IF wrong # {}
      THEN CheckerResult("WRONG_ANSWER",
             SomeStr(reason_token(expected_tokens[first], user_tokens[first], first)))
      ELSE CheckerResult("WRONG_ANSWER",
             SomeStr(reason_token_count(Len(expected_tokens), Len(user_tokens))))

\* CheckerTokens.check.  wrong_token_index is 0-based as in the source.
CheckerTokens_check(io_input, expected_output, user_output) ==
  LET expected_tokens == split_whitespace(expected_output)
      user_tokens == split_whitespace(user_output)
      wrong == {k \in 1..Len(expected_tokens) : expected_tokens[k] # user_tokens[k]}
      wrong_token_index == (CHOOSE k \in wrong : \A j \in wrong : k <= j) - 1
  IN  IF expected_tokens = user_tokens THEN CheckerResult("ACCEPTED", NoneStr)
      ELSE IF Len(expected_tokens) # Len(user_tokens)
      THEN CheckerResult("WRONG_ANSWER",
             SomeStr(reason_token_count(Len(expected_tokens), Len(user_tokens))))
      ELSE CheckerResult("WRONG_ANSWER",
             SomeStr(reason_token(expected_tokens[wrong_token_index + 1],
                                  user_tokens[wrong_token_index + 1],
                                  wrong_token_index + 1)))

\* Mutant of CheckerYesNo_check: the outputs are compared in the case they
\* were written in.
CheckerYesNo_check_case_sensitive(io_input, expected_output, user_output) ==
  LET user_tokens == split_whitespace(user_output)
      wrong == {k \in 1..Len(user_tokens) :
                  user_tokens[k] \notin {<<"y", "e", "s">>, <<"n", "o">>}}
      token_number == (CHOOSE k \in wrong : \A j \in wrong : k <= j) - 1
  IN  IF wrong # {}
      THEN CheckerResult("WRONG_ANSWER",
             SomeStr(reason_yes_no(user_tokens[token_number + 1], token_number + 1)))
      ELSE CheckerTokens_check(io_input, expected_output, user_output)

\* CheckerYesNo.check.  token_number is 0-based as in the source.
CheckerYesNo_check(io_input, expected_output, user_output) ==
  LET user_tokens == split_whitespace(lower(user_output))
      wrong == {k \in 1..Len(user_tokens) :
                  user_tokens[k] \notin {<<"y", "e", "s">>, <<"n", "o">>}}
      token_number == (CHOOSE k \in wrong : \A j \in wrong : k <= j) - 1
  IN  IF wrong # {}
      THEN CheckerResult("WRONG_ANSWER",
             SomeStr(reason_yes_no(user_tokens[token_number + 1], token_number + 1)))
      ELSE CheckerTokens_check(io_input, lower(expected_output), lower(user_output))

\* io_delim of CheckerCustom.check.
io_delim == <<"-", "-", "-">>

\* Mutant of CheckerCustom_stdin: the expected output before the user output.
CheckerCustom_stdin_expected_first(io_input, expected_output, user_output) ==
  join(<<"\n">> \o io_delim \o <<"\n">>, <<io_input, expected_output, user_output>>)

\* The input CheckerCustom.check gives the checker binary.
CheckerCustom_stdin(io_input, expected_output, user_output) ==
  join(<<"\n">> \o io_delim \o <<"\n">>, <<io_input, user_output, expected_output>>)

\* Mutant of CheckerCustom_run: the checker multiplies the time limit again.
CheckerCustom_run_tripled(io_input, expected_output, user_output, limit) ==
  [file |-> "checker_file_out",
   io_input |-> CheckerCustom_stdin(io_input, expected_output, user_output),
   time_limit |-> 3 * limit]

\* The arguments of the Execution.run call of CheckerCustom.check.
CheckerCustom_run(io_input, expected_output, user_output, limit) ==
  [file |-> "checker_file_out",
   io_input |-> CheckerCustom_stdin(io_input, expected_output, user_output),
   time_limit |-> limit]

\* Mutant of CheckerCustom_result: the output decides before the result type.
CheckerCustom_result_output_first(run_result) ==
  IF run_result.output # <<>>
  THEN CheckerResult("WRONG_ANSWER", SomeStr(run_result.output))
  ELSE IF run_result.result_type = "SUCCESS" THEN CheckerResult("ACCEPTED", NoneStr)
  ELSE IF run_result.result_type = "RUNTIME_ERROR"
  THEN CheckerResult("CHECKER_RUNTIME_ERROR", NoneStr)
  ELSE CheckerResult("CHECKER_TIME_LIMIT_EXCEEDED", NoneStr)

\* The CheckerResult CheckerCustom.check makes of the RunResult of the
\* checker binary.
CheckerCustom_result(run_result) ==
  IF run_result.result_type = "SUCCESS"
  THEN IF run_result.output = <<>>
       THEN CheckerResult("ACCEPTED", NoneStr)
       ELSE CheckerResult("WRONG_ANSWER", SomeStr(run_result.output))
  ELSE IF run_result.result_type = "RUNTIME_ERROR"
  THEN CheckerResult("CHECKER_RUNTIME_ERROR", NoneStr)
  ELSE CheckerResult("CHECKER_TIME_LIMIT_EXCEEDED", NoneStr)

\* The Execution.run calls a call of checker.check makes: the token and the
\* yes/no checker ignore the time limit and run nothing.
checker_runs(name, io_input, expected_output, user_output, limit) ==
  IF name = "c"
  THEN <<CheckerCustom_run(io_input, expected_output, user_output, limit)>>
  ELSE <<>>

\* ------------------------------------------------------------------------
\* Testcases as Runner.run sees them (src/src/testcases.py).
\* A testcase is [testcase_id, scraped, split]: split is the number of
\* multitests get_testcases returns in mode MULTIPLE, and 0 when it raises
\* its AssertionError instead: check_multitests() does not return
\* (True, True), or it does and get_multitests finds another number of
\* multitests than the count (a multitest file that ends in an empty line).

TestCases(id) ==
  {[testcase_id |-> id, scraped |-> FALSE, split |-> 0]}
  \cup {[testcase_id |-> id, scraped |-> TRUE, split |-> s] : s \in 0..MaxSubtests}

\* The assertions of TestCase.get_testcases and of get_multitests under it.
get_testcases_assert(tc, mode) ==
  (mode = "MULTIPLE" /\ tc.scraped) => tc.split > 0

\* The ids of the TestCaseRun list of TestCase.get_testcases: <<t>> is the
\* string 't', <<t, s>> is the string 't-s'.
get_testcases_ids(tc, mode) ==
  IF mode = "ONE" \/ ~tc.scraped
  THEN << <<tc.testcase_id>> >>
  ELSE [idx \in 1..tc.split |-> <<tc.testcase_id, idx>>]

\* Mutant of extend_testcase_ids: each testcase's units go to the front.
RECURSIVE extend_testcase_ids_front(_, _)
extend_testcase_ids_front(set, mode) ==
  IF set = <<>> THEN <<>>
  ELSE get_testcases_ids(set[Len(set)], mode)
         \o extend_testcase_ids_front(SubSeq(set, 1, Len(set) - 1), mode)

\* testcase_ids as the loop over testcase_set extends it.
RECURSIVE extend_testcase_ids(_, _)
extend_testcase_ids(set, mode) ==
  IF set = <<>> THEN <<>>
  ELSE extend_testcase_ids(SubSeq(set, 1, Len(set) - 1), mode)
         \o get_testcases_ids(set[Len(set)], mode)

\* to_run: the (input, expected output) pair of every run unit; the content
\* of a unit is named by the unit it belongs to.
unit_io(id) == [io_input |-> <<"input", id>>, io_output |-> <<"output", id>>]

extend_to_run(set, mode) ==
  [i \in 1..Len(extend_testcase_ids(set, mode)) |-> unit_io(extend_testcase_ids(set, mode)[i])]

\* ------------------------------------------------------------------------
\* State.

VARIABLES
  \* arguments of Runner.run; the time limit is in units of a tenth of a second
  testcase_set, testcase_mode, checker, time_limit,
  \* Which Execution.compile the runner calls.  FALSE is compile as declared
  \* in src/src/execution.py, with two parameters: the runner passes three, so
  \* the call raises TypeError.  TRUE is a compile that takes the compiler as
  \* its third parameter, the one the calls in runners.py are written for.
  compile_binds,
  \* the orchestrator
  pc, compile_drained, run_drained, compile_bracket_verdict, overall_verdict,
  \* the compile phase
  compile_verdicts, compile_queue, compile_task, compile_calls,
  \* the run phase
  testcase_ids, to_run, main_outputs, wrong_answer_reasons, run_verdicts, run_queue,
  run_task,
  \* what the collaborators saw
  events, report, run_calls, checker_calls,
  \* history: who wrote each slot, and the order of dequeued run indices
  compile_writers, run_writers, finished_indices,
  \* one TestCase: its fields, the content of its files, the multitest lists
  \* its constructor was given, the number of keystrokes in editor sessions so
  \* far and the last method call with its result
  testcase_id, testcase_type, entire_testcase, multiple_testcases,
  multitests_inputs, multitests_outputs, edits, last_call,
  \* a Problem in process_commands: TestCaseSet.all_testcases, the position in
  \* the handler, the index of the testcase a loop of the handler is at, the
  \* last Runner.run call and the testcases of the last deletion
  all_testcases, problem_pc, cursor, runner_call, deleted,
  \* the last call of a function of the scraper, of a checker or of Execution,
  \* with its arguments and its result
  call

inputs == <<testcase_set, testcase_mode, checker, time_limit, compile_binds>>
orchestrator ==
  <<pc, compile_drained, run_drained, compile_bracket_verdict, overall_verdict>>
compile_phase ==
  <<compile_verdicts, compile_queue, compile_task, compile_calls, compile_writers>>
run_lists == <<testcase_ids, to_run>>
run_phase ==
  <<main_outputs, wrong_answer_reasons, run_verdicts, run_queue, run_task,
    run_calls, checker_calls, run_writers>>
sink == <<events, report>>

testcase ==
  <<testcase_id, testcase_type, entire_testcase, multiple_testcases,
    multitests_inputs, multitests_outputs, edits, last_call>>
problem == <<all_testcases, problem_pc, cursor, runner_call, deleted>>

vars ==
  <<inputs, orchestrator, compile_phase, run_lists, run_phase, sink, finished_indices,
    testcase, problem, call>>

\* to_compile of Runner.run: the main file, then the checker's file if any.
to_compile(name) ==
  <<[file |-> "main", file_out |-> "main_out"]>>
  \o (IF checker_file_present(name)
      THEN <<[file |-> "checker_file", file_out |-> "checker_file_out"]>>
      ELSE <<>>)

\* compile_count and run_count of Runner.run.
compile_count == 1 + (IF checker_file_present(checker) THEN 1 ELSE 0)
run_count == Len(extend_testcase_ids(testcase_set, testcase_mode))

\* The value of a local variable that has not been assigned yet.
Unset == "unset"

NoReport ==
  [kind |-> "none", compilation_errors |-> <<>>, run_verdicts |-> <<>>,
   testcase_ids |-> <<>>, to_run |-> <<>>, main_outputs |-> <<>>,
   wrong_answer_reasons |-> <<>>, run_bracket_verdict |-> Unset, entries |-> <<>>]

\* The testcase sets TestCaseSet.__init__ builds: testcase i has id i.
TestCaseSets ==
  UNION {
    {s \in [1..n -> UNION {TestCases(id) : id \in 1..n}] :
        \A i \in 1..n : s[i].testcase_id = i}
    : n \in 0..MaxTestcases}

\* Whether every get_testcases call of Runner.run passes its assertion.
run_asserts_hold(set, mode) ==
  \A i \in 1..Len(set) : get_testcases_assert(set[i], mode)

\* The variables of a part of the program a specification does not follow.
None == "none"

NoTestCase ==
  /\ testcase_id = 0
  /\ testcase_type = None
  /\ entire_testcase = None
  /\ multiple_testcases = None
  /\ multitests_inputs = None
  /\ multitests_outputs = None
  /\ edits = 0
  /\ last_call = None

\* call before the first call.
NoCall == [function |-> None, args |-> <<>>, runs |-> <<>>, result |-> <<>>]

\* A time limit argument that was not given (None in the source; a time
\* limit that is given is at least 0.1).
NoTimeLimit == 0

\* runner_call before the first call of Runner.run.
NoRunnerCall ==
  [time_limit |-> NoTimeLimit, testcase_mode |-> None, checker |-> None,
   asserts_hold |-> TRUE]

NoProblem ==
  /\ all_testcases = <<>>
  /\ problem_pc = None
  /\ cursor = 0
  /\ runner_call = NoRunnerCall
  /\ deleted = <<>>

Init ==
  /\ NoTestCase
  /\ NoProblem
  /\ call = NoCall
  /\ testcase_set \in TestCaseSets
  /\ testcase_mode \in TestCaseMode
  /\ checker \in CheckerNames
  /\ time_limit \in TimeLimits
  /\ compile_binds \in BOOLEAN
  \* get_testcases reads the type and the multitest files of a testcase in
  \* mode MULTIPLE only: in mode ONE the sets differ in their length alone.
  /\ testcase_mode = "ONE" => \A i \in 1..Len(testcase_set) : ~testcase_set[i].scraped
  /\ run_asserts_hold(testcase_set, testcase_mode)
       => Len(extend_testcase_ids(testcase_set, testcase_mode)) <= MaxUnits
  /\ pc = "idle"
  /\ compile_drained = 0
  /\ run_drained = 0
  /\ compile_bracket_verdict = Unset
  /\ overall_verdict = Unset
  /\ compile_verdicts = <<>>
  /\ compile_queue = <<>>
  /\ compile_task = <<>>
  /\ compile_calls = <<>>
  /\ compile_writers = <<>>
  /\ testcase_ids = <<>>
  /\ to_run = <<>>
  /\ main_outputs = <<>>
  /\ wrong_answer_reasons = <<>>
  /\ run_verdicts = <<>>
  /\ run_queue = <<>>
  /\ run_task = <<>>
  /\ run_calls = <<>>
  /\ checker_calls = <<>>
  /\ run_writers = <<>>
  /\ events = <<>>
  /\ report = NoReport
  /\ finished_indices = <<>>

\* ------------------------------------------------------------------------
\* Runner.run, compile phase (src/src/runners.py, lines 67-122).

\* The call of run() up to the creation of the compile threads.  run_count
\* calls get_testcases on every testcase, whose assertion can fail.
Run ==
  /\ pc = "idle"
  /\ run_asserts_hold(testcase_set, testcase_mode)
  /\ pc' = "compile_start"
  /\ events' = Append(events, "runner_start")
  /\ compile_verdicts' = [i \in 1..compile_count |-> "COMPILING"]
  /\ compile_writers' = [i \in 1..compile_count |-> <<>>]
  /\ compile_queue' = <<>>
  /\ compile_task' = [i \in 1..compile_count |-> "none"]
  /\ compile_calls' = [i \in 1..compile_count |-> <<>>]
  /\ UNCHANGED <<call, testcase, problem, inputs, compile_drained, run_drained, compile_bracket_verdict,
                 overall_verdict, run_lists, run_phase, report, finished_indices>>

\* The AssertionError of get_testcases leaves run() before anything is printed.
RunAssertionError ==
  /\ pc = "idle"
  /\ ~run_asserts_hold(testcase_set, testcase_mode)
  /\ pc' = "assertion_error"
  /\ UNCHANGED <<call, testcase, problem, inputs, compile_drained, run_drained, compile_bracket_verdict,
                 overall_verdict, compile_phase, run_lists, run_phase, sink,
                 finished_indices>>

\* Mutant of set_verdict: the index is ignored and the first slot is written.
set_verdict_first_slot(verdicts, index, verdict) == [verdicts EXCEPT ![1] = verdict]

\* `verdicts[index] = verdict`, the write of a task to its slot.
set_verdict(verdicts, index, verdict) == [verdicts EXCEPT ![index] = verdict]

\* The number of threads of a phase that thread.start() was called on.
started(tasks) == Cardinality({i \in 1..Len(tasks) : tasks[i] # "none"})

\* for thread in compile_threads: thread.start()
StartCompileThread ==
  /\ pc = "compile_start"
  /\ LET i == started(compile_task) + 1 IN
       /\ compile_task' = [compile_task EXCEPT ![i] = "started"]
       /\ pc' = IF i = compile_count THEN "compile_wait" ELSE pc
  /\ UNCHANGED <<call, testcase, problem, inputs, compile_drained, run_drained, compile_bracket_verdict,
                 overall_verdict, compile_verdicts, compile_queue, compile_calls,
                 compile_writers, run_lists, run_phase, sink, finished_indices>>

\* compile_thread_target up to the write of its slot.
CompileTaskCompile(compile_index) ==
  /\ compile_index \in 1..Len(compile_task)
  /\ compile_task[compile_index] = "started"
  /\ compile_binds
  /\ \E return_code \in CompileReturnCodes :
       compile_verdicts' =
         set_verdict(compile_verdicts, compile_index,
                     IF Execution_compile(return_code) THEN "SUCCESS" ELSE "COMPILATION_ERROR")
  /\ compile_writers' =
       [compile_writers EXCEPT ![compile_index] = Append(@, compile_index)]
  /\ compile_calls' =
       [compile_calls EXCEPT ![compile_index] = Append(@, to_compile(checker)[compile_index])]
  /\ compile_task' = [compile_task EXCEPT ![compile_index] = "written"]
  /\ UNCHANGED <<call, testcase, problem, inputs, orchestrator, compile_queue, run_lists, run_phase, sink,
                 finished_indices>>

\* Execution.compile is declared with two parameters and called with three:
\* the call raises TypeError and the thread ends.
CompileTaskRaise(compile_index) ==
  /\ compile_index \in 1..Len(compile_task)
  /\ compile_task[compile_index] = "started"
  /\ ~compile_binds
  /\ compile_task' = [compile_task EXCEPT ![compile_index] = "raised"]
  /\ UNCHANGED <<call, testcase, problem, inputs, orchestrator, compile_verdicts, compile_queue, compile_calls,
                 compile_writers, run_lists, run_phase, sink, finished_indices>>

\* compile_queue.put(compile_index)
CompileTaskPut(compile_index) ==
  /\ compile_index \in 1..Len(compile_task)
  /\ compile_task[compile_index] = "written"
  /\ compile_queue' = Append(compile_queue, compile_index)
  /\ compile_task' = [compile_task EXCEPT ![compile_index] = "done"]
  /\ UNCHANGED <<call, testcase, problem, inputs, orchestrator, compile_verdicts, compile_calls, compile_writers,
                 run_lists, run_phase, sink, finished_indices>>

\* Mutant of wait_done: the loop runs one round short.
wait_done_one_short(drained, rounds) == drained = rounds - 1

\* `for _ in range(...)`: the loop is over after that many rounds.
wait_done(drained, rounds) == drained = rounds

\* One round of the loop that waits on the compile threads.
CompileDequeue ==
  /\ pc = "compile_wait"
  /\ ~wait_done(compile_drained, compile_count)
  /\ compile_queue # <<>>
  /\ compile_queue' = Tail(compile_queue)
  /\ compile_drained' = compile_drained + 1
  /\ events' = Append(events, "runner_compile_update")
  /\ UNCHANGED <<call, testcase, problem, inputs, pc, run_drained, compile_bracket_verdict, overall_verdict,
                 compile_verdicts, compile_task, compile_calls, compile_writers,
                 run_lists, run_phase, report, finished_indices>>

\* compile_bracket_verdict of Runner.run.
bracket_verdict(verdicts) ==
  IF \A i \in 1..Len(verdicts) : verdicts[i] # "COMPILATION_ERROR"
  THEN "SUCCESS" ELSE "COMPILATION_ERROR"

\* Mutant of compilation_failed: only the main file is looked at.
compilation_failed_main_only(verdicts) == verdicts[1] = "COMPILATION_ERROR"

\* `CompileVerdict.COMPILATION_ERROR in compile_verdicts`
compilation_failed(verdicts) ==
  \E i \in 1..Len(verdicts) : verdicts[i] = "COMPILATION_ERROR"

\* Messages.runner_finish_after_compile: the names of the files that failed.
file_names == <<"main", "checker">>

\* Mutant of compilation_errors: every compiled file is named.
compilation_errors_unfiltered(verdicts) ==
  SubSeq(file_names, 1, IF Len(verdicts) < Len(file_names) THEN Len(verdicts) ELSE Len(file_names))

compilation_errors(verdicts) ==
  LET n == IF Len(verdicts) < Len(file_names) THEN Len(verdicts) ELSE Len(file_names)
      F[k \in 0..n] ==
        IF k = 0 THEN <<>>
        ELSE IF verdicts[k] = "COMPILATION_ERROR" THEN Append(F[k - 1], file_names[k])
        ELSE F[k - 1]
  IN F[n]

\* After the wait loop: the compile finish message, then either the return
\* after a compilation error or the preparation of the run phase.
CompileFinish ==
  /\ pc = "compile_wait"
  /\ wait_done(compile_drained, compile_count)
  /\ compile_bracket_verdict' = bracket_verdict(compile_verdicts)
  /\ IF compilation_failed(compile_verdicts)
     THEN /\ events' = events \o <<"runner_compile_finish", "runner_finish_after_compile">>
          /\ report' = [NoReport EXCEPT !.kind = "finish_after_compile",
                          !.compilation_errors = compilation_errors(compile_verdicts)]
          /\ pc' = "compile_failed"
          /\ UNCHANGED <<run_lists, run_phase>>
     ELSE /\ events' = Append(events, "runner_compile_finish")
          /\ testcase_ids' = extend_testcase_ids(testcase_set, testcase_mode)
          /\ to_run' = extend_to_run(testcase_set, testcase_mode)
          /\ main_outputs' = [i \in 1..run_count |-> <<>>]
          /\ wrong_answer_reasons' = [i \in 1..run_count |-> <<>>]
          /\ run_verdicts' = [i \in 1..run_count |-> "RUNNING"]
          /\ run_writers' = [i \in 1..run_count |-> <<>>]
          /\ run_calls' = [i \in 1..run_count |-> <<>>]
          /\ checker_calls' = [i \in 1..run_count |-> <<>>]
          /\ run_queue' = <<>>
          /\ run_task' = [i \in 1..run_count |->
                            [pc |-> "none", result_type |-> Unset, checker_result |-> Unset]]
          /\ pc' = "run_start"
          /\ UNCHANGED report
  /\ UNCHANGED <<call, testcase, problem, inputs, compile_drained, run_drained, overall_verdict, compile_phase,
                 finished_indices>>

\* ------------------------------------------------------------------------
\* Runner.run, run phase (src/src/runners.py, lines 124-220).

\* for thread in run_threads: thread.start()
StartRunThread ==
  /\ pc = "run_start"
  /\ started([i \in 1..Len(run_task) |-> run_task[i].pc]) < run_count
  /\ LET i == started([k \in 1..Len(run_task) |-> run_task[k].pc]) + 1 IN
       run_task' = [run_task EXCEPT ![i].pc = "started"]
  /\ UNCHANGED <<call, testcase, problem, inputs, orchestrator, compile_phase, run_lists, main_outputs,
                 wrong_answer_reasons, run_verdicts, run_queue, run_calls, checker_calls,
                 run_writers, sink, finished_indices>>

\* overall_verdict = RunVerdict.ACCEPTED, once every run thread is started.
StartRunWait ==
  /\ pc = "run_start"
  /\ started([i \in 1..Len(run_task) |-> run_task[i].pc]) = run_count
  /\ overall_verdict' = "ACCEPTED"
  /\ pc' = "run_wait"
  /\ UNCHANGED <<call, testcase, problem, inputs, compile_drained, run_drained, compile_bracket_verdict,
                 compile_phase, run_lists, run_phase, sink, finished_indices>>

\* Mutant of run_thread_verdict: the two checker failures are swapped.
run_thread_verdict_swapped(result_type, checker_result) ==
  IF result_type = "RUNTIME_ERROR" THEN "RUNTIME_ERROR"
  ELSE IF result_type = "TIME_LIMIT_EXCEEDED" THEN "TIME_LIMIT_EXCEEDED"
  ELSE IF checker_result = "CHECKER_RUNTIME_ERROR" THEN "CHECKER_TIME_LIMIT_EXCEEDED"
  ELSE IF checker_result = "CHECKER_TIME_LIMIT_EXCEEDED" THEN "CHECKER_RUNTIME_ERROR"
  ELSE IF checker_result = "WRONG_ANSWER" THEN "WRONG_ANSWER"
  ELSE "ACCEPTED"

\* The verdict run_thread_target writes for a run result and, after a
\* successful run, a checker result.
run_thread_verdict(result_type, checker_result) ==
  IF result_type = "RUNTIME_ERROR" THEN "RUNTIME_ERROR"
  ELSE IF result_type = "TIME_LIMIT_EXCEEDED" THEN "TIME_LIMIT_EXCEEDED"
  ELSE IF checker_result = "CHECKER_RUNTIME_ERROR" THEN "CHECKER_RUNTIME_ERROR"
  ELSE IF checker_result = "CHECKER_TIME_LIMIT_EXCEEDED" THEN "CHECKER_TIME_LIMIT_EXCEEDED"
  ELSE IF checker_result = "WRONG_ANSWER" THEN "WRONG_ANSWER"
  ELSE "ACCEPTED"

\* Mutant of checker_time_limit: the checker gets the time limit of the run.
checker_time_limit_same(limit) == limit

\* The time limit run_thread_target gives checker.check.
checker_time_limit(limit) == 3 * limit

\* The standard output of the candidate on an input, and the reason a
\* checker gives for a wrong answer.
stdout_of(io_input) == <<"stdout", io_input>>
reason_of(io_input) == <<"reason", io_input>>

\* run_thread_target when the candidate's run is a runtime error or exceeds
\* the time limit: the verdict is written and the checker is not called.
RunTaskFail(run_index) ==
  /\ run_index \in 1..Len(run_task)
  /\ run_task[run_index].pc = "started"
  /\ \E return_code \in RunReturnCodes :
       /\ Execution_run(return_code) # "SUCCESS"
       /\ run_task' = [run_task EXCEPT ![run_index] =
            [pc |-> "written", result_type |-> Execution_run(return_code),
             checker_result |-> Unset]]
       /\ run_verdicts' = set_verdict(run_verdicts, run_index,
            run_thread_verdict(Execution_run(return_code), Unset))
  /\ run_calls' = [run_calls EXCEPT ![run_index] =
       Append(@, [file |-> "main_out", io_input |-> to_run[run_index].io_input,
                  time_limit |-> time_limit])]
  /\ run_writers' = [run_writers EXCEPT ![run_index] = Append(@, run_index)]
  /\ UNCHANGED <<call, testcase, problem, inputs, orchestrator, compile_phase, run_lists, main_outputs,
                 wrong_answer_reasons, run_queue, checker_calls, sink, finished_indices>>

\* run_thread_target when the candidate's run succeeds: the output is
\* stored, the checker is called and its result becomes the verdict.
RunTaskCheck(run_index) ==
  /\ run_index \in 1..Len(run_task)
  /\ run_task[run_index].pc = "started"
  /\ \E return_code \in RunReturnCodes, checker_result \in check_results(checker) :
       /\ Execution_run(return_code) = "SUCCESS"
       /\ run_task' = [run_task EXCEPT ![run_index] =
            [pc |-> "written", result_type |-> Execution_run(return_code),
             checker_result |-> checker_result]]
       /\ run_verdicts' = set_verdict(run_verdicts, run_index,
            run_thread_verdict(Execution_run(return_code), checker_result))
       /\ wrong_answer_reasons' =
            IF checker_result = "WRONG_ANSWER"
            THEN [wrong_answer_reasons EXCEPT ![run_index] =
                    reason_of(to_run[run_index].io_input)]
            ELSE wrong_answer_reasons
  /\ run_calls' = [run_calls EXCEPT ![run_index] =
       Append(@, [file |-> "main_out", io_input |-> to_run[run_index].io_input,
                  time_limit |-> time_limit])]
  /\ main_outputs' = [main_outputs EXCEPT ![run_index] =
       stdout_of(to_run[run_index].io_input)]
  /\ checker_calls' = [checker_calls EXCEPT ![run_index] =
       Append(@, [io_input |-> to_run[run_index].io_input,
                  expected_output |-> to_run[run_index].io_output,
                  user_output |-> stdout_of(to_run[run_index].io_input),
                  time_limit |-> checker_time_limit(time_limit),
                  runs |-> checker_runs(checker, to_run[run_index].io_input,
                                        to_run[run_index].io_output,
                                        stdout_of(to_run[run_index].io_input),
                                        checker_time_limit(time_limit))])]
  /\ run_writers' = [run_writers EXCEPT ![run_index] = Append(@, run_index)]
  /\ UNCHANGED <<call, testcase, problem, inputs, orchestrator, compile_phase, run_lists, run_queue, sink,
                 finished_indices>>

\* Mutant of RunTaskPut: the index is put by a task that has not written its
\* slot yet.
RunTaskPut_unwritten(run_index) ==
  /\ run_index \in 1..Len(run_task)
  /\ run_task[run_index].pc = "started"
  /\ run_queue' = Append(run_queue, run_index)
  /\ run_task' = [run_task EXCEPT ![run_index].pc = "done"]
  /\ UNCHANGED <<call, testcase, problem, inputs, orchestrator, compile_phase, run_lists, main_outputs,
                 wrong_answer_reasons, run_verdicts, run_calls, checker_calls,
                 run_writers, sink, finished_indices>>

\* run_queue.put(run_index)
RunTaskPut(run_index) ==
  /\ run_index \in 1..Len(run_task)
  /\ run_task[run_index].pc = "written"
  /\ run_queue' = Append(run_queue, run_index)
  /\ run_task' = [run_task EXCEPT ![run_index].pc = "done"]
  /\ UNCHANGED <<call, testcase, problem, inputs, orchestrator, compile_phase, run_lists, main_outputs,
                 wrong_answer_reasons, run_verdicts, run_calls, checker_calls,
                 run_writers, sink, finished_indices>>

\* Mutants of next_overall_verdict: the last verdict, the last failing verdict.
next_overall_verdict_last(overall, verdict) == verdict

next_overall_verdict_last_failing(overall, verdict) ==
  IF verdict # "ACCEPTED" THEN verdict ELSE overall

\* The update of overall_verdict for one finished index.
next_overall_verdict(overall, verdict) ==
  IF verdict # "ACCEPTED" /\ overall = "ACCEPTED" THEN verdict ELSE overall

\* Mutant of RunDequeue: the overall verdict is that of the failing unit of
\* lowest index among the dequeued ones.
RunDequeue_lowest_index ==
  /\ pc = "run_wait"
  /\ ~wait_done(run_drained, run_count)
  /\ run_queue # <<>>
  /\ finished_indices' = Append(finished_indices, Head(run_queue))
  /\ LET failing == {i \in 1..Len(run_verdicts) :
                      /\ run_verdicts[i] # "ACCEPTED"
                      /\ \E k \in 1..Len(finished_indices') : finished_indices'[k] = i}
     IN overall_verdict' =
          IF failing = {} THEN "ACCEPTED"
          ELSE run_verdicts[CHOOSE i \in failing : \A j \in failing : i <= j]
  /\ run_queue' = Tail(run_queue)
  /\ run_drained' = run_drained + 1
  /\ events' = Append(events, "runner_run_update")
  /\ UNCHANGED <<call, testcase, problem, inputs, pc, compile_drained, compile_bracket_verdict, compile_phase,
                 run_lists, main_outputs, wrong_answer_reasons, run_verdicts, run_task,
                 run_calls, checker_calls, run_writers, report>>

\* One round of the loop that waits on the run threads.
RunDequeue ==
  /\ pc = "run_wait"
  /\ ~wait_done(run_drained, run_count)
  /\ run_queue # <<>>
  /\ LET finished_index == Head(run_queue) IN
       /\ overall_verdict' =
            next_overall_verdict(overall_verdict, run_verdicts[finished_index])
       /\ finished_indices' = Append(finished_indices, finished_index)
  /\ run_queue' = Tail(run_queue)
  /\ run_drained' = run_drained + 1
  /\ events' = Append(events, "runner_run_update")
  /\ UNCHANGED <<call, testcase, problem, inputs, pc, compile_drained, compile_bracket_verdict, compile_phase,
                 run_lists, main_outputs, wrong_answer_reasons, run_verdicts, run_task,
                 run_calls, checker_calls, run_writers, report>>

\* short_verdict_names of runner_finish_after_run; it has no key RUNNING.
short_verdict_names ==
  [run_verdict \in RunVerdict \ {"RUNNING"} |->
     CASE run_verdict = "ACCEPTED" -> "AC"
       [] run_verdict = "WRONG_ANSWER" -> "WA"
       [] run_verdict = "RUNTIME_ERROR" -> "RTE"
       [] run_verdict = "TIME_LIMIT_EXCEEDED" -> "TLE"
       [] run_verdict = "CHECKER_RUNTIME_ERROR" -> "checker RTE"
       [] run_verdict = "CHECKER_TIME_LIMIT_EXCEEDED" -> "checker TLE"]

\* Messages.helper_io_one_testcase: the (name, string) pairs it prints, of
\* the strings that are not None.
helper_io_one_testcase(io_input, user_output, expected_output) ==
  (IF io_input.is_none THEN <<>> ELSE << <<"input", io_input.str>> >>)
    \o (IF user_output.is_none THEN <<>> ELSE << <<"output", user_output.str>> >>)
    \o (IF expected_output.is_none THEN <<>> ELSE << <<"expected", expected_output.str>> >>)

min(a, b) == IF a < b THEN a ELSE b

\* Mutant of runner_finish_entry: the io of a wrong answer is that of the
\* first run unit.
runner_finish_entry_first_io(verdicts, ids, pairs, outputs, reasons, i) ==
  LET run_verdict == verdicts[i]
      header == [testcase_id |-> ids[i], verdict |-> short_verdict_names[run_verdict]]
  IN  IF run_verdict \in {"ACCEPTED", "CHECKER_RUNTIME_ERROR", "CHECKER_TIME_LIMIT_EXCEEDED"}
      THEN [header |-> header, reason |-> NoneStr, io |-> <<>>]
      ELSE IF run_verdict = "WRONG_ANSWER"
      THEN [header |-> header, reason |-> SomeStr(reasons[i]),
            io |-> helper_io_one_testcase(SomeStr(pairs[1].io_input),
                                          SomeStr(outputs[1]),
                                          SomeStr(pairs[1].io_output))]
      ELSE [header |-> header, reason |-> NoneStr,
            io |-> helper_io_one_testcase(SomeStr(pairs[i].io_input), NoneStr, NoneStr)]

\* What one round of the loop of runner_finish_after_run prints: the header
\* (with the reason after it when there is one) and the io under it.
runner_finish_entry(verdicts, ids, pairs, outputs, reasons, i) ==
  LET run_verdict == verdicts[i]
      header == [testcase_id |-> ids[i], verdict |-> short_verdict_names[run_verdict]]
  IN  IF run_verdict \in {"ACCEPTED", "CHECKER_RUNTIME_ERROR", "CHECKER_TIME_LIMIT_EXCEEDED"}
      THEN [header |-> header, reason |-> NoneStr, io |-> <<>>]
      ELSE IF run_verdict = "WRONG_ANSWER"
      THEN [header |-> header, reason |-> SomeStr(reasons[i]),
            io |-> helper_io_one_testcase(SomeStr(pairs[i].io_input),
                                          SomeStr(outputs[i]),
                                          SomeStr(pairs[i].io_output))]
      ELSE [header |-> header, reason |-> NoneStr,
            io |-> helper_io_one_testcase(SomeStr(pairs[i].io_input), NoneStr, NoneStr)]

\* Messages.runner_finish_after_run: one round for every position of the
\* zip of its five lists.
runner_finish_after_run(verdicts, ids, pairs, outputs, reasons) ==
  [i \in 1..min(Len(verdicts),
               min(min(Len(ids), Len(pairs)),
                   min(Len(outputs), Len(reasons)))) |->
     runner_finish_entry(verdicts, ids, pairs, outputs,
                         reasons, i)]

\* After the wait loop: runner_finish and runner_finish_after_run.
RunFinish ==
  /\ pc = "run_wait"
  /\ wait_done(run_drained, run_count)
  /\ events' = events \o <<"runner_finish", "runner_finish_after_run">>
  /\ report' = [kind |-> "finish_after_run", compilation_errors |-> <<>>,
                run_verdicts |-> run_verdicts, testcase_ids |-> testcase_ids,
                to_run |-> to_run, main_outputs |-> main_outputs,
                wrong_answer_reasons |-> wrong_answer_reasons,
                run_bracket_verdict |-> overall_verdict,
                entries |-> runner_finish_after_run(run_verdicts, testcase_ids, to_run,
                                                    main_outputs, wrong_answer_reasons)]
  /\ pc' = "finished"
  /\ UNCHANGED <<call, testcase, problem, inputs, compile_drained, run_drained, compile_bracket_verdict,
                 overall_verdict, compile_phase, run_lists, run_phase, finished_indices>>

\* ------------------------------------------------------------------------
\* The specification.

CompileIndices == 1..2
RunIndices == 1..MaxUnits

Next ==
  \/ Run
  \/ RunAssertionError
  \/ StartCompileThread
  \/ \E compile_index \in CompileIndices : CompileTaskCompile(compile_index)
  \/ \E compile_index \in CompileIndices : CompileTaskRaise(compile_index)
  \/ \E compile_index \in CompileIndices : CompileTaskPut(compile_index)
  \/ CompileDequeue
  \/ CompileFinish
  \/ StartRunThread
  \/ StartRunWait
  \/ \E run_index \in RunIndices : RunTaskFail(run_index)
  \/ \E run_index \in RunIndices : RunTaskCheck(run_index)
  \/ \E run_index \in RunIndices : RunTaskPut(run_index)
  \/ RunDequeue
  \/ RunFinish

Spec == Init /\ [][Next]_vars

\* Every started thread and the orchestrator keep being scheduled.
Fairness ==
  /\ WF_vars(Run \/ RunAssertionError \/ StartCompileThread \/ CompileDequeue
             \/ CompileFinish \/ StartRunThread \/ StartRunWait \/ RunDequeue
             \/ RunFinish)
  /\ \A compile_index \in CompileIndices :
       WF_vars(CompileTaskCompile(compile_index) \/ CompileTaskRaise(compile_index)
               \/ CompileTaskPut(compile_index))
  /\ \A run_index \in RunIndices :
       WF_vars(RunTaskFail(run_index) \/ RunTaskCheck(run_index)
               \/ RunTaskPut(run_index))

FairSpec == Spec /\ Fairness

\* ------------------------------------------------------------------------
\* Problem.process_commands (src/src/problems.py) over a TestCaseSet
\* (src/src/testcases.py).
\*
\* The multitest files of a Scraped testcase are followed as far as
\* check_multitests() reads them.  io_input is "no_count" when
\* check_multitests returns (False, False) early (the header or token check
\* of the input fails, or its first line is not a number), "not_split" when
\* the input component is False after that and "split" when it is True;
\* io_output is the output component for the count the input gives.  What an
\* editor session or a rewrite leaves in a file is any content, so any of
\* these values.

\* The variables of Runner.run when a specification does not follow it.
NoRunner ==
  /\ testcase_set = <<>>
  /\ pc = None
  /\ compile_drained = 0
  /\ run_drained = 0
  /\ compile_bracket_verdict = Unset
  /\ overall_verdict = Unset
  /\ compile_verdicts = <<>>
  /\ compile_queue = <<>>
  /\ compile_task = <<>>
  /\ compile_calls = <<>>
  /\ compile_writers = <<>>
  /\ testcase_ids = <<>>
  /\ to_run = <<>>
  /\ main_outputs = <<>>
  /\ wrong_answer_reasons = <<>>
  /\ run_verdicts = <<>>
  /\ run_queue = <<>>
  /\ run_task = <<>>
  /\ run_calls = <<>>
  /\ checker_calls = <<>>
  /\ run_writers = <<>>
  /\ events = <<>>
  /\ report = NoReport
  /\ finished_indices = <<>>

runner ==
  <<testcase_set, orchestrator, compile_phase, run_lists, run_phase, sink,
    finished_indices>>

MultitestChecks ==
  {[io_input |-> "no_count", io_output |-> FALSE]}
  \cup [io_input : {"not_split", "split"}, io_output : BOOLEAN]

\* TestCase.check_multitests on the files m.
checks_check_multitests(m) ==
  IF m.io_input = "no_count" THEN <<FALSE, FALSE>>
  ELSE <<m.io_input = "split", m.io_output>>

\* What TestCase.set_multitest_files() can leave: a file is rewritten only
\* if its header or token check fails, and then its component was False; a
\* rewritten input gives a new count, whatever the output file holds.
checks_set_multitest_files(m) ==
  IF m.io_input = "no_count" THEN MultitestChecks
  ELSE IF ~m.io_output THEN {[m EXCEPT !.io_output = b] : b \in BOOLEAN}
  ELSE {m}

\* What an editor session on the multitest input or output file can leave.
checks_edit(m, io_file) ==
  IF io_file = "input" THEN MultitestChecks
  ELSE IF m.io_input = "no_count" THEN {m}
  ELSE {[m EXCEPT !.io_output = b] : b \in BOOLEAN}

\* One round of the loop of TestCase.edit_multitests over (input, output):
\* the files after it and whether the method returned False in it.
checks_edit_round(m, io_file, check_id, only_necessary, shortcircuit) ==
  LET io_file_check == checks_check_multitests(m)[check_id] IN
    IF ~io_file_check \/ ~only_necessary
    THEN {[returned |-> ~checks_check_multitests(e)[check_id] /\ shortcircuit,
           multitest |-> e] : e \in checks_edit(m, io_file)}
         \cup {[returned |-> ~io_file_check /\ shortcircuit, multitest |-> m]}
    ELSE {[returned |-> FALSE, multitest |-> m]}

\* Mutant of checks_edit_multitests: a call that was not cut short returns
\* True.
checks_edit_multitests_uncut(m, only_necessary, shortcircuit) ==
  UNION {UNION {
    IF r1.returned THEN {[result |-> FALSE, multitest |-> r1.multitest]}
    ELSE {[result |-> TRUE, multitest |-> r2.multitest]
            : r2 \in checks_edit_round(r1.multitest, "output", 2, only_necessary, shortcircuit)}
    : r1 \in checks_edit_round(s, "input", 1, only_necessary, shortcircuit)}
    : s \in checks_set_multitest_files(m)}

\* TestCase.edit_multitests: every (result, files) it can end with.
checks_edit_multitests(m, only_necessary, shortcircuit) ==
  UNION {UNION {
    IF r1.returned THEN {[result |-> FALSE, multitest |-> r1.multitest]}
    ELSE {[result |-> ~r2.returned
                      /\ checks_check_multitests(r2.multitest) = <<TRUE, TRUE>>,
           multitest |-> r2.multitest]
            : r2 \in checks_edit_round(r1.multitest, "output", 2, only_necessary, shortcircuit)}
    : r1 \in checks_edit_round(s, "input", 1, only_necessary, shortcircuit)}
    : s \in checks_set_multitest_files(m)}

\* TestCase.check_multitest_mode
checks_check_multitest_mode(tc) ==
  tc.testcase_type # "SCRAPED" \/ checks_check_multitests(tc.multitest) = <<TRUE, TRUE>>

\* The assertion at the top of TestCase.get_testcases.
checks_get_testcases_assert(tc, mode) ==
  (mode = "MULTIPLE" /\ tc.testcase_type = "SCRAPED")
    => checks_check_multitests(tc.multitest) = <<TRUE, TRUE>>

\* TestCaseSet.check_multitest_mode
TestCaseSet_check_multitest_mode(all) ==
  \A i \in 1..Len(all) : checks_check_multitest_mode(all[i])

\* TestCaseSet.get_num_scraped
get_num_scraped(all) ==
  Cardinality({i \in 1..Len(all) : all[i].testcase_type = "SCRAPED"})

\* TestCaseSet.get_scraped_testcases, as the positions of the testcases.
get_scraped_testcases(all) ==
  LET F[k \in 0..Len(all)] ==
        IF k = 0 THEN <<>>
        ELSE IF all[k].testcase_type = "SCRAPED" THEN Append(F[k - 1], k)
        ELSE F[k - 1]
  IN F[Len(all)]

\* The TestCase objects TestCaseSet.__init__ builds when parsing online.
ScrapedTestCase(id, m) ==
  [testcase_id |-> id, testcase_type |-> "SCRAPED", multitest |-> m]

\* The TestCase add_user_testcase builds: multiple_testcases is None.
NoMultitest == [io_input |-> None, io_output |-> FALSE]

UserTestCase(id) ==
  [testcase_id |-> id, testcase_type |-> "USER_ADDED", multitest |-> NoMultitest]

\* Problem.init_online: every testcase is scraped, the mode is MULTIPLE if
\* the whole set passes check_multitest_mode and the checker is 't'; the time
\* limit is the one of the problem page, one of time_limits.
ProblemInitOf(time_limits) ==
  /\ NoRunner
  /\ NoTestCase
  /\ call = NoCall
  /\ \E n \in 0..MaxTestcases :
       all_testcases \in {s \in [1..n -> {ScrapedTestCase(id, m) : id \in 1..n, m \in MultitestChecks}] :
                            \A i \in 1..n : s[i].testcase_id = i}
  /\ time_limit \in time_limits
  /\ testcase_mode = IF TestCaseSet_check_multitest_mode(all_testcases) THEN "MULTIPLE" ELSE "ONE"
  /\ checker = "t"
  /\ compile_binds \in BOOLEAN
  /\ problem_pc = "prompt"
  /\ cursor = 0
  /\ runner_call = NoRunnerCall
  /\ deleted = <<>>

\* The command loop with the time limit left out: it is not given to a
\* command and the stored one is not followed.
ProblemInit == ProblemInitOf({NoTimeLimit})

\* The optional arguments of the run and set commands.
TimeLimitArgs == {NoTimeLimit} \cup TimeLimits
MultitestModeArgs == {None, "o", "m"}
CheckerArgs == {None} \cup CheckerNames

\* run_testcase_mode / set_testcase_mode from the -m argument, before
\* set_multitest_mode() is asked.
arg_testcase_mode(multitest_mode, stored) ==
  IF multitest_mode = None THEN stored
  ELSE IF multitest_mode = "o" THEN "ONE" ELSE "MULTIPLE"

\* run_time_limit / the time limit the set command stores, from the -t
\* argument.
arg_time_limit(time_limit_arg, stored) ==
  IF time_limit_arg = NoTimeLimit THEN stored ELSE time_limit_arg

\* run_checker / the checker the set command stores, from the -c argument.
arg_checker(checker_name, stored) ==
  IF checker_name = None THEN stored ELSE checker_name

\* Whether every get_testcases call of Runner.run or view_testcases passes
\* its assertion.
set_asserts_hold(all, mode) ==
  \A i \in 1..Len(all) : checks_get_testcases_assert(all[i], mode)

\* Mutant of overrides: the modes of the run are stored in every case.
overrides_always(no_override) == TRUE

\* `if json.loads(parsed_args['no-override'])[0] == 'False':`
overrides(no_override) == ~no_override

\* The run command from the call of Runner.run on: the call raises the
\* AssertionError of get_testcases, or the one of get_multitests (validated
\* multitest files may end in an empty line, which the checks do not tell),
\* or does not return (compile_binds), or returns, and then the modes are
\* stored unless no-override is set.
run_call(all, run_time_limit, run_testcase_mode, run_checker, no_override) ==
  /\ all_testcases' = all
  /\ runner_call' = [time_limit |-> run_time_limit, testcase_mode |-> run_testcase_mode,
                     checker |-> run_checker,
                     asserts_hold |-> set_asserts_hold(all, run_testcase_mode)]
  /\ cursor' = 0
  /\ IF ~set_asserts_hold(all, run_testcase_mode)
     THEN problem_pc' = "assertion_error" /\ UNCHANGED <<time_limit, testcase_mode, checker>>
     ELSE \/ /\ run_testcase_mode = "MULTIPLE"
             /\ get_num_scraped(all) > 0
             /\ problem_pc' = "get_multitests_assertion_error"
             /\ UNCHANGED <<time_limit, testcase_mode, checker>>
          \/ IF ~compile_binds
             THEN problem_pc' = "blocked" /\ UNCHANGED <<time_limit, testcase_mode, checker>>
             ELSE /\ problem_pc' = "prompt"
                  /\ IF overrides(no_override)
                     THEN /\ time_limit' = run_time_limit
                          /\ testcase_mode' = run_testcase_mode
                          /\ checker' = run_checker
                     ELSE UNCHANGED <<time_limit, testcase_mode, checker>>
  /\ UNCHANGED <<call, testcase, runner, compile_binds, deleted>>

\* The run command when set_multitest_mode() is not asked or returns True at
\* its first check.
CommandRun(time_limit_arg, multitest_mode, checker_name, no_override) ==
  /\ problem_pc = "prompt"
  /\ multitest_mode = "m" => TestCaseSet_check_multitest_mode(all_testcases)
  /\ run_call(all_testcases, arg_time_limit(time_limit_arg, time_limit),
              arg_testcase_mode(multitest_mode, testcase_mode),
              arg_checker(checker_name, checker), no_override)

\* The run command with -m m on a set that needs a split: set_multitest_mode
\* starts its loop over the scraped testcases.
CommandRunSplit ==
  /\ problem_pc = "prompt"
  /\ ~TestCaseSet_check_multitest_mode(all_testcases)
  /\ problem_pc' = "run_split"
  /\ cursor' = 1
  /\ UNCHANGED <<call, testcase, runner, time_limit, testcase_mode, checker, compile_binds, all_testcases,
                 runner_call, deleted>>

\* The next scraped testcase of a loop and the ways its edit_multitests call
\* can end.
cursor_testcase == get_scraped_testcases(all_testcases)[cursor]
cursor_is_last == cursor = Len(get_scraped_testcases(all_testcases))
with_multitest(all, k, m) == [all EXCEPT ![k].multitest = m]

\* One edit_multitests(True, True) of set_multitest_mode in the run command:
\* all() stops at the first False.  After the loop the command goes on to
\* Runner.run; the -c and no-override arguments are read only then, and the
\* -t argument, read before, is used only then.
RunSplit(time_limit_arg, checker_name, no_override) ==
  /\ problem_pc = "run_split"
  /\ \E o \in checks_edit_multitests(all_testcases[cursor_testcase].multitest, TRUE, TRUE) :
       IF o.result /\ ~cursor_is_last
       THEN /\ all_testcases' = with_multitest(all_testcases, cursor_testcase, o.multitest)
            /\ cursor' = cursor + 1
            /\ UNCHANGED <<call, testcase, runner, time_limit, testcase_mode, checker, compile_binds,
                           problem_pc, runner_call, deleted>>
       ELSE run_call(with_multitest(all_testcases, cursor_testcase, o.multitest),
                     arg_time_limit(time_limit_arg, time_limit),
                     IF o.result THEN "MULTIPLE" ELSE "ONE",
                     arg_checker(checker_name, checker), no_override)

\* The set command when set_multitest_mode() is not asked or returns True at
\* its first check.
CommandSet(time_limit_arg, multitest_mode, checker_name) ==
  /\ problem_pc = "prompt"
  /\ multitest_mode = "m" => TestCaseSet_check_multitest_mode(all_testcases)
  /\ time_limit' = arg_time_limit(time_limit_arg, time_limit)
  /\ testcase_mode' = arg_testcase_mode(multitest_mode, testcase_mode)
  /\ checker' = arg_checker(checker_name, checker)
  /\ UNCHANGED <<call, testcase, runner, compile_binds, problem>>

\* The set command with -m m on a set that needs a split; the time limit is
\* stored before set_multitest_mode() is asked.
CommandSetSplit(time_limit_arg) ==
  /\ problem_pc = "prompt"
  /\ ~TestCaseSet_check_multitest_mode(all_testcases)
  /\ problem_pc' = "set_split"
  /\ cursor' = 1
  /\ time_limit' = arg_time_limit(time_limit_arg, time_limit)
  /\ UNCHANGED <<call, testcase, runner, testcase_mode, checker, compile_binds, all_testcases,
                 runner_call, deleted>>

\* One edit_multitests(True, True) of set_multitest_mode in the set command.
SetSplit(checker_name) ==
  /\ problem_pc = "set_split"
  /\ \E o \in checks_edit_multitests(all_testcases[cursor_testcase].multitest, TRUE, TRUE) :
       /\ all_testcases' = with_multitest(all_testcases, cursor_testcase, o.multitest)
       /\ IF o.result /\ ~cursor_is_last
          THEN /\ cursor' = cursor + 1
               /\ UNCHANGED <<testcase_mode, checker, problem_pc>>
          ELSE /\ cursor' = 0
               /\ problem_pc' = "prompt"
               /\ testcase_mode' = IF o.result THEN "MULTIPLE" ELSE "ONE"
               /\ checker' = arg_checker(checker_name, checker)
  /\ UNCHANGED <<call, testcase, runner, time_limit, compile_binds, runner_call, deleted>>

\* Mutant of remove_range: the scraped testcases are not left out.
remove_range_all(num_scraped, num_testcases) == 1..num_testcases

\* The num_range of the arguments of the input-output command, from the
\* counts CommandSuiteProblem is built with.
remove_range(num_scraped, num_testcases) == 1..(num_testcases - num_scraped)
keep_range(num_scraped, num_testcases) == num_scraped..(num_testcases - 1)
multitests_range(num_scraped, num_testcases) == 1..num_scraped
edit_range(num_scraped, num_testcases) == (num_scraped + 1)..num_testcases
view_range(num_scraped, num_testcases) == 1..num_testcases

\* list[start:] and list[:stop] of Python, for indices of either sign.
slice_from(list, start) ==
  LET from == IF start < 0 THEN (IF Len(list) + start < 0 THEN 0 ELSE Len(list) + start)
              ELSE min(start, Len(list))
  IN  SubSeq(list, from + 1, Len(list))
slice_to(list, stop) ==
  LET to == IF stop < 0 THEN (IF Len(list) + stop < 0 THEN 0 ELSE Len(list) + stop)
            ELSE min(stop, Len(list))
  IN  SubSeq(list, 1, to)

\* Mutant of delete_remove_testcases: the first of the removed testcases
\* keeps its files.
delete_remove_testcases_first_kept(all, remove_cnt, confirm) ==
  IF confirm
  THEN [asked |-> slice_from(all, 0 - remove_cnt),
        deleted |-> [i \in 1..(remove_cnt - 1) |-> all[Len(all) - remove_cnt + 1 + i]],
        all_testcases |-> slice_to(all, 0 - remove_cnt)]
  ELSE [asked |-> slice_from(all, 0 - remove_cnt), deleted |-> <<>>, all_testcases |-> all]

\* TestCaseSet.delete_remove_testcases: the testcases the user is asked
\* about, the testcases delete() is called on, in order, and the list that
\* is left.  range(len - remove_cnt, len) counts from 0.
delete_remove_testcases(all, remove_cnt, confirm) ==
  IF confirm
  THEN [asked |-> slice_from(all, 0 - remove_cnt),
        deleted |-> [i \in 1..remove_cnt |-> all[Len(all) - remove_cnt + i]],
        all_testcases |-> slice_to(all, 0 - remove_cnt)]
  ELSE [asked |-> slice_from(all, 0 - remove_cnt), deleted |-> <<>>, all_testcases |-> all]

\* TestCaseSet.delete_keep_testcases
delete_keep_testcases(all, keep_cnt, confirm) ==
  IF confirm
  THEN [asked |-> slice_from(all, keep_cnt),
        deleted |-> [i \in 1..(Len(all) - keep_cnt) |-> all[keep_cnt + i]],
        all_testcases |-> slice_to(all, keep_cnt)]
  ELSE [asked |-> slice_from(all, keep_cnt), deleted |-> <<>>, all_testcases |-> all]

\* The remove argument of the input-output command: the user confirms or
\* declines.  deleted holds the testcases of the last confirmed deletion.
CommandRemove(remove_cnt, confirm) ==
  /\ problem_pc = "prompt"
  /\ remove_cnt \in remove_range(get_num_scraped(all_testcases), Len(all_testcases))
  /\ LET done == delete_remove_testcases(all_testcases, remove_cnt, confirm)
     IN  /\ all_testcases' = done.all_testcases
         /\ deleted' = IF confirm THEN done.deleted ELSE deleted
  /\ UNCHANGED <<call, testcase, runner, time_limit, testcase_mode, checker, compile_binds, problem_pc,
                 cursor, runner_call>>

\* The keep argument of the input-output command.
CommandKeep(keep_cnt, confirm) ==
  /\ problem_pc = "prompt"
  /\ keep_cnt \in keep_range(get_num_scraped(all_testcases), Len(all_testcases))
  /\ LET done == delete_keep_testcases(all_testcases, keep_cnt, confirm)
     IN  /\ all_testcases' = done.all_testcases
         /\ deleted' = IF confirm THEN done.deleted ELSE deleted
  /\ UNCHANGED <<call, testcase, runner, time_limit, testcase_mode, checker, compile_binds, problem_pc,
                 cursor, runner_call>>

\* Mutant of checked_testcase_mode: the mode is kept.
checked_testcase_mode_kept(mode, all) == mode

\* The check of the testcase mode after the multitests were edited.
checked_testcase_mode(mode, all) ==
  IF mode = "MULTIPLE" /\ ~TestCaseSet_check_multitest_mode(all) THEN "ONE" ELSE mode

\* input-output --multitests tc: edit_multitests(False, False) on one
\* testcase, then the check of the mode.
CommandMultitests(multitests_id) ==
  /\ problem_pc = "prompt"
  /\ multitests_id \in multitests_range(get_num_scraped(all_testcases), Len(all_testcases))
  /\ IF all_testcases[multitests_id].testcase_type # "SCRAPED"
     THEN problem_pc' = "edit_assertion_error" /\ UNCHANGED <<all_testcases, testcase_mode>>
     ELSE \E o \in checks_edit_multitests(all_testcases[multitests_id].multitest, FALSE, FALSE) :
            /\ all_testcases' = with_multitest(all_testcases, multitests_id, o.multitest)
            /\ testcase_mode' = checked_testcase_mode(testcase_mode, all_testcases')
            /\ UNCHANGED problem_pc
  /\ UNCHANGED <<call, testcase, runner, time_limit, checker, compile_binds, cursor, runner_call, deleted>>

\* input-output --multitests with no testcase: the loop over the scraped
\* testcases starts, or there is none and the mode is checked at once.
CommandMultitestsAll ==
  /\ problem_pc = "prompt"
  /\ IF get_num_scraped(all_testcases) = 0
     THEN /\ testcase_mode' = checked_testcase_mode(testcase_mode, all_testcases)
          /\ UNCHANGED <<problem_pc, cursor>>
     ELSE /\ problem_pc' = "multitests"
          /\ cursor' = 1
          /\ UNCHANGED testcase_mode
  /\ UNCHANGED <<call, testcase, runner, time_limit, checker, compile_binds, all_testcases, runner_call,
                 deleted>>

\* One edit_multitests(False, False) of TestCaseSet.edit_multitests(None);
\* after the last one the mode is checked.
MultitestsEdit ==
  /\ problem_pc = "multitests"
  /\ \E o \in checks_edit_multitests(all_testcases[cursor_testcase].multitest, FALSE, FALSE) :
       /\ all_testcases' = with_multitest(all_testcases, cursor_testcase, o.multitest)
       /\ IF ~cursor_is_last
          THEN cursor' = cursor + 1 /\ UNCHANGED <<testcase_mode, problem_pc>>
          ELSE /\ cursor' = 0
               /\ problem_pc' = "prompt"
               /\ testcase_mode' = checked_testcase_mode(testcase_mode, all_testcases')
  /\ UNCHANGED <<call, testcase, runner, time_limit, checker, compile_binds, runner_call, deleted>>

\* Mutant of new_testcase_id: the id of the last testcase is used again.
new_testcase_id_last(all) == Len(all)

\* testcase_id of add_user_testcase
new_testcase_id(all) == Len(all) + 1

\* input-output --add: TestCaseSet.add_user_testcase.  The editor sessions
\* are on the entire files of the new testcase, which are not followed.
CommandAdd ==
  /\ problem_pc = "prompt"
  /\ Len(all_testcases) < MaxTestcases
  /\ all_testcases' = Append(all_testcases, UserTestCase(new_testcase_id(all_testcases)))
  /\ UNCHANGED <<call, testcase, runner, time_limit, testcase_mode, checker, compile_binds, problem_pc,
                 cursor, runner_call, deleted>>

\* input-output --edit tc: TestCaseSet.edit_testcase asserts that the
\* testcase is not scraped; its editor sessions are on the entire files.
CommandEdit(edit_id) ==
  /\ problem_pc = "prompt"
  /\ edit_id \in edit_range(get_num_scraped(all_testcases), Len(all_testcases))
  /\ problem_pc' = IF all_testcases[edit_id].testcase_type = "SCRAPED"
                   THEN "edit_assertion_error" ELSE problem_pc
  /\ UNCHANGED <<call, testcase, runner, time_limit, testcase_mode, checker, compile_binds, all_testcases,
                 cursor, runner_call, deleted>>

\* input-output --view: view_testcases calls get_testcases with the stored
\* mode on the testcases viewed; view_id 0 is the command with no testcase.
CommandView(view_id) ==
  /\ problem_pc = "prompt"
  /\ view_id \in {0} \cup view_range(get_num_scraped(all_testcases), Len(all_testcases))
  /\ problem_pc' =
       IF \A i \in 1..Len(all_testcases) :
            (view_id = 0 \/ view_id = i)
              => checks_get_testcases_assert(all_testcases[i], testcase_mode)
       THEN problem_pc ELSE "assertion_error"
  /\ UNCHANGED <<call, testcase, runner, time_limit, testcase_mode, checker, compile_binds, all_testcases,
                 cursor, runner_call, deleted>>

\* The quit command and a new Problem on the same folder: init_offline reads
\* the mode, the checker and the types from the problem data file, and every
\* scraped TestCase calls set_multitest_files() when it is built.
InitOffline ==
  /\ problem_pc = "prompt"
  /\ all_testcases' \in
       {s \in [1..Len(all_testcases) ->
                 {ScrapedTestCase(id, m) : id \in 1..Len(all_testcases), m \in MultitestChecks}
                 \cup {UserTestCase(id) : id \in 1..Len(all_testcases)}] :
          \A i \in 1..Len(all_testcases) :
            /\ s[i].testcase_id = i
            /\ s[i].testcase_type = all_testcases[i].testcase_type
            /\ s[i].testcase_type = "SCRAPED"
                 => s[i].multitest \in checks_set_multitest_files(all_testcases[i].multitest)}
  /\ UNCHANGED <<call, testcase, runner, time_limit, testcase_mode, checker, compile_binds, problem_pc,
                 cursor, runner_call, deleted>>

TestcaseIndices == 0..MaxTestcases

ProblemNext ==
  \/ \E multitest_mode \in MultitestModeArgs, checker_name \in CheckerArgs,
        no_override \in BOOLEAN :
        CommandRun(NoTimeLimit, multitest_mode, checker_name, no_override)
  \/ CommandRunSplit
  \/ \E checker_name \in CheckerArgs, no_override \in BOOLEAN :
        RunSplit(NoTimeLimit, checker_name, no_override)
  \/ \E multitest_mode \in MultitestModeArgs, checker_name \in CheckerArgs :
        CommandSet(NoTimeLimit, multitest_mode, checker_name)
  \/ CommandSetSplit(NoTimeLimit)
  \/ \E checker_name \in CheckerArgs : SetSplit(checker_name)
  \/ \E remove_cnt \in TestcaseIndices, confirm \in BOOLEAN : CommandRemove(remove_cnt, confirm)
  \/ \E keep_cnt \in TestcaseIndices, confirm \in BOOLEAN : CommandKeep(keep_cnt, confirm)
  \/ \E multitests_id \in TestcaseIndices : CommandMultitests(multitests_id)
  \/ CommandMultitestsAll
  \/ MultitestsEdit
  \/ CommandAdd
  \/ \E edit_id \in TestcaseIndices : CommandEdit(edit_id)
  \/ \E view_id \in TestcaseIndices : CommandView(view_id)
  \/ InitOffline

ProblemSpec == ProblemInit /\ [][ProblemNext]_vars

\* The set and run commands with all their options, up to the first call of
\* Runner.run and what the run command does after it.
OverrideNext ==
  \/ \E time_limit_arg \in TimeLimitArgs, multitest_mode \in MultitestModeArgs,
        checker_name \in CheckerArgs, no_override \in BOOLEAN :
        /\ runner_call = NoRunnerCall
        /\ CommandRun(time_limit_arg, multitest_mode, checker_name, no_override)
  \/ runner_call = NoRunnerCall /\ CommandRunSplit
  \/ \E time_limit_arg \in TimeLimitArgs, checker_name \in CheckerArgs,
        no_override \in BOOLEAN :
        /\ runner_call = NoRunnerCall
        /\ RunSplit(time_limit_arg, checker_name, no_override)
  \/ \E time_limit_arg \in TimeLimitArgs, multitest_mode \in MultitestModeArgs,
        checker_name \in CheckerArgs :
        /\ runner_call = NoRunnerCall
        /\ CommandSet(time_limit_arg, multitest_mode, checker_name)
  \/ \E time_limit_arg \in TimeLimitArgs :
        runner_call = NoRunnerCall /\ CommandSetSplit(time_limit_arg)
  \/ \E checker_name \in CheckerArgs :
        runner_call = NoRunnerCall /\ SetSplit(checker_name)

OverrideSpec == ProblemInitOf(TimeLimits) /\ [][OverrideNext]_vars

\* ------------------------------------------------------------------------
\* Properties of Runner.run.

\* The states in which run() has returned.
Terminal == {"compile_failed", "finished"}

\* The verdicts of the run units that are not accepted.
non_accepted == {run_verdicts[i] : i \in {k \in 1..Len(run_verdicts) : run_verdicts[k] # "ACCEPTED"}}

first_non_accepted(order) ==
  LET failing == {k \in 1..Len(order) : run_verdicts[order[k]] # "ACCEPTED"} IN
    IF failing = {} THEN "ACCEPTED"
    ELSE run_verdicts[order[CHOOSE k \in failing : \A l \in failing : k <= l]]

RunPhaseEvents == {"runner_run_update", "runner_finish", "runner_finish_after_run"}

ExpectedIds ==
  UNION {IF testcase_mode = "ONE" \/ ~testcase_set[t].scraped
         THEN {<<testcase_set[t].testcase_id>>}
         ELSE {<<testcase_set[t].testcase_id, sub>> : sub \in 1..testcase_set[t].split}
         : t \in 1..Len(testcase_set)}

\* Testcase order, then sub-id order.
IdBefore(a, b) ==
  \/ a[1] < b[1]
  \/ a[1] = b[1] /\ Len(a) = 2 /\ Len(b) = 2 /\ a[2] < b[2]

\* The verdict that belongs to the outcome a run task observed.
OutcomeVerdict(task) ==
  IF task.result_type = "SUCCESS" THEN task.checker_result ELSE task.result_type

SingleWriter(verdicts, writers, initial) ==
  /\ Len(writers) = Len(verdicts)
  /\ \A slot \in 1..Len(verdicts) :
       /\ writers[slot] \in {<<>>, <<slot>>}
       /\ (verdicts[slot] = initial) <=> (writers[slot] = <<>>)

\* A slot changes only in a step in which its owner writes it, and not after
\* it has left its initial value.
WrittenByOwnerOnce(verdicts, verdicts_next, writers, writers_next, initial) ==
  \A slot \in 1..Len(verdicts) :
    (slot \in 1..Len(verdicts_next) /\ verdicts_next[slot] # verdicts[slot]) =>
      /\ verdicts[slot] = initial
      /\ writers_next[slot] = Append(writers[slot], slot)

Repeat(event, n) == [k \in 1..n |-> event]

\* The events of a compile phase of n files.
CompileEvents(n) ==
  <<"runner_start">> \o Repeat("runner_compile_update", n) \o <<"runner_compile_finish">>

C7_RunToCompletion ==
  /\ <>(pc \in Terminal \cup {"assertion_error"})
  /\ [](pc = "finished" =>
          \A i \in 1..Len(run_verdicts) :
            run_verdicts[i] # "RUNNING" /\ Len(run_calls[i]) = 1)

CompileDecided == pc \in {"run_start", "run_wait"} \cup Terminal

lowest_failing == CHOOSE i \in 1..Len(run_verdicts) :
  /\ run_verdicts[i] # "ACCEPTED"
  /\ \A j \in 1..Len(run_verdicts) : run_verdicts[j] # "ACCEPTED" => i <= j

unvalidated(all) ==
  {i \in 1..Len(all) :
     /\ all[i].testcase_type = "SCRAPED"
     /\ checks_check_multitests(all[i].multitest) # <<TRUE, TRUE>>}

C14_IdsArePositions ==
  \A i \in 1..Len(all_testcases) : all_testcases[i].testcase_id = i

\* A testcase was added after a confirmed deletion.
C14_Witness ==
  /\ Len(all_testcases) = MaxTestcases
  /\ all_testcases[Len(all_testcases)].testcase_type = "USER_ADDED"
  /\ deleted # <<>>

\* C15: with the arguments the command suite lets through, the scraped
\* testcases are a prefix of the set, no command changes their number or
\* their place, and no deleted testcase is scraped.
C15_ScrapedPrefixStable ==
  /\ [](/\ \A i \in 1..Len(all_testcases) :
             (all_testcases[i].testcase_type = "SCRAPED") <=> (i <= get_num_scraped(all_testcases))
        /\ \A i \in 1..Len(deleted) : deleted[i].testcase_type # "SCRAPED")
  /\ [][/\ get_num_scraped(all_testcases') = get_num_scraped(all_testcases)
        /\ \A i \in 1..get_num_scraped(all_testcases) :
             /\ i <= Len(all_testcases')
             /\ all_testcases'[i].testcase_type = "SCRAPED"
             /\ all_testcases'[i].testcase_id = all_testcases[i].testcase_id]_vars

\* After a scraped testcase, a user testcase was deleted and another added.
C15_Witness ==
  /\ get_num_scraped(all_testcases) >= 1
  /\ Len(all_testcases) > get_num_scraped(all_testcases)
  /\ Len(deleted) >= 1

\* ------------------------------------------------------------------------
\* TestCase on the contents of its files.

\* A File and what File.read_file returns; File.delete_file leaves NoFile.
File(contents) == [exists |-> TRUE, contents |-> contents]
NoFile == [exists |-> FALSE, contents |-> <<>>]
read_file(file) == file.contents

IOPair(io_input, io_output) == [io_input |-> io_input, io_output |-> io_output]

\* multiple_testcases of a testcase that is not scraped (None in the source;
\* the constructor asserts that it is None exactly for these).
NoIOPair == IOPair(NoFile, NoFile)

\* An Optional[list[str]] argument.
NoneList == [is_none |-> TRUE, list |-> <<>>]
SomeList(list) == [is_none |-> FALSE, list |-> list]

\* MULTITEST_HEADER is comment lines followed by one empty line; "#" is a
\* comment line's text.
MULTITEST_HEADER == <<"#", "\n", "\n">>

check_multitest_files(entire, multiple) ==
  LET multitest_input == read_file(multiple.io_input)
      multitest_output == read_file(multiple.io_output)
      entire_input_tokens == split_whitespace(read_file(entire.io_input))
      entire_output_tokens == split_whitespace(read_file(entire.io_output))
  IN  << /\ startswith(multitest_input, MULTITEST_HEADER)
         /\ split_whitespace(removeprefix(multitest_input, MULTITEST_HEADER))
              = entire_input_tokens,
         /\ startswith(multitest_output, MULTITEST_HEADER)
         /\ split_whitespace(removeprefix(multitest_output, MULTITEST_HEADER))
              = entire_output_tokens >>

\* Mutant of set_multitest_files: the files are written whatever their check.
set_multitest_files_rewritten(entire, multiple, multitests_in, multitests_out) ==
  LET seed(file, list, entire_file) ==
        IF ~list.is_none
        THEN File(MULTITEST_HEADER \o join(<<"\n", "\n">>, list.list))
        ELSE File(MULTITEST_HEADER \o read_file(entire_file))
  IN  IOPair(seed(multiple.io_input, multitests_in, entire.io_input),
             seed(multiple.io_output, multitests_out, entire.io_output))

\* The multitest files after set_multitest_files.
set_multitest_files(entire, multiple, multitests_in, multitests_out) ==
  LET check == check_multitest_files(entire, multiple)
      seed(is_checked, file, list, entire_file) ==
        IF is_checked THEN file
        ELSE IF ~list.is_none
        THEN File(MULTITEST_HEADER \o join(<<"\n", "\n">>, list.list))
        ELSE File(MULTITEST_HEADER \o read_file(entire_file))
  IN  IOPair(seed(check[1], multiple.io_input, multitests_in, entire.io_input),
             seed(check[2], multiple.io_output, multitests_out, entire.io_output))

\* Mutant of check_multitests: the output is held to as many double newlines
\* as the input.
check_multitests_count_t(entire, multiple) ==
  LET multitest_input == removeprefix(read_file(multiple.io_input), MULTITEST_HEADER)
      multitest_output == removeprefix(read_file(multiple.io_output), MULTITEST_HEADER)
      check == check_multitest_files(entire, multiple)
      multitest_input_line == splitlines(multitest_input)
      first_input_line ==
        IF Len(multitest_input_line) >= 1 THEN multitest_input_line[1] ELSE <<>>
      num_multitests == int(first_input_line)
  IN  IF ~check[1] THEN <<FALSE, FALSE>>
      ELSE IF first_input_line = <<>> \/ ~isdigit(first_input_line)
      THEN <<FALSE, FALSE>>
      ELSE << /\ find(multitest_input, <<"\n", "\n", "\n">>) = -1
              /\ count(multitest_input, <<"\n", "\n">>) = num_multitests,
              /\ find(multitest_output, <<"\n", "\n", "\n">>) = -1
              /\ check[2]
              /\ count(multitest_output, <<"\n", "\n">>) = num_multitests >>

\* Mutant of check_multitests: the double newlines of the output are not counted.
check_multitests_output_uncounted(entire, multiple) ==
  LET multitest_input == removeprefix(read_file(multiple.io_input), MULTITEST_HEADER)
      check == check_multitest_files(entire, multiple)
      multitest_input_line == splitlines(multitest_input)
      first_input_line ==
        IF Len(multitest_input_line) >= 1 THEN multitest_input_line[1] ELSE <<>>
      num_multitests == int(first_input_line)
  IN  IF ~check[1] THEN <<FALSE, FALSE>>
      ELSE IF first_input_line = <<>> \/ ~isdigit(first_input_line)
      THEN <<FALSE, FALSE>>
      ELSE << /\ find(multitest_input, <<"\n", "\n", "\n">>) = -1
              /\ count(multitest_input, <<"\n", "\n">>) = num_multitests,
              check[2] >>

check_multitests(entire, multiple) ==
  LET multitest_input == removeprefix(read_file(multiple.io_input), MULTITEST_HEADER)
      multitest_output == removeprefix(read_file(multiple.io_output), MULTITEST_HEADER)
      check == check_multitest_files(entire, multiple)
      multitest_input_line == splitlines(multitest_input)
      first_input_line ==
        IF Len(multitest_input_line) >= 1 THEN multitest_input_line[1] ELSE <<>>
      num_multitests == int(first_input_line)
  IN  IF ~check[1] THEN <<FALSE, FALSE>>
      ELSE IF first_input_line = <<>> \/ ~isdigit(first_input_line)
      THEN <<FALSE, FALSE>>
      ELSE << /\ find(multitest_input, <<"\n", "\n", "\n">>) = -1
              /\ count(multitest_input, <<"\n", "\n">>) = num_multitests,
              /\ find(multitest_output, <<"\n", "\n", "\n">>) = -1
              /\ check[2]
              /\ count(multitest_output, <<"\n", "\n">>) = num_multitests - 1 >>

all(checks) == checks[1] /\ checks[2]

\* What a call returns: the value, or the exception it raises.
Return(value) == [raises |-> None, value |-> value]
Raise(exception) == [raises |-> exception, value |-> <<>>]

\* Mutant of get_multitests: the outputs do not get their final newline.
get_multitests_no_newline(entire, multiple) ==
  LET multitest_input ==
        removesuffix(removeprefix(read_file(multiple.io_input), MULTITEST_HEADER), <<"\n">>)
      multitest_output ==
        removesuffix(removeprefix(read_file(multiple.io_output), MULTITEST_HEADER), <<"\n">>)
      num_multitests == int(splitlines(multitest_input)[1])
      multitest_inputs ==
        [k \in 1..(Len(split(multitest_input, <<"\n", "\n">>)) - 1) |->
           <<"1", "\n">> \o split(multitest_input, <<"\n", "\n">>)[k + 1] \o <<"\n">>]
      multitest_outputs == split(multitest_output, <<"\n", "\n">>)
  IN  IF ~all(check_multitests(entire, multiple)) THEN Raise("AssertionError")
      ELSE IF ~(Len(multitest_inputs) = num_multitests /\ Len(multitest_outputs) = num_multitests)
      THEN Raise("AssertionError")
      ELSE Return([k \in 1..num_multitests |-> <<multitest_inputs[k], multitest_outputs[k]>>])

get_multitests(entire, multiple) ==
  LET multitest_input ==
        removesuffix(removeprefix(read_file(multiple.io_input), MULTITEST_HEADER), <<"\n">>)
      multitest_output ==
        removesuffix(removeprefix(read_file(multiple.io_output), MULTITEST_HEADER), <<"\n">>)
      num_multitests == int(splitlines(multitest_input)[1])
      multitest_inputs ==
        [k \in 1..(Len(split(multitest_input, <<"\n", "\n">>)) - 1) |->
           <<"1", "\n">> \o split(multitest_input, <<"\n", "\n">>)[k + 1] \o <<"\n">>]
      multitest_outputs ==
        [k \in 1..Len(split(multitest_output, <<"\n", "\n">>)) |->
           split(multitest_output, <<"\n", "\n">>)[k] \o <<"\n">>]
  IN  IF ~all(check_multitests(entire, multiple)) THEN Raise("AssertionError")
      ELSE IF ~(Len(multitest_inputs) = num_multitests /\ Len(multitest_outputs) = num_multitests)
      THEN Raise("AssertionError")
      ELSE Return([k \in 1..num_multitests |-> <<multitest_inputs[k], multitest_outputs[k]>>])

\* Mutant of check_multitest_mode: the input's check decides alone.
check_multitest_mode_input_only(type, entire, multiple) ==
  type # "SCRAPED" \/ check_multitests(entire, multiple)[1]

check_multitest_mode(type, entire, multiple) ==
  type # "SCRAPED" \/ all(check_multitests(entire, multiple))

\* A TestCaseRun; the id <<t>> is the string 't', <<t, s>> the string 't-s'.
TestCaseRun(id, io_input, io_output) ==
  [id |-> id, io_input |-> io_input, io_output |-> io_output]

\* Mutant of get_testcases: the entire testcase in every case.
get_testcases_entire(id, type, entire, multiple, mode) ==
  Return(<<TestCaseRun(<<id>>, read_file(entire.io_input), read_file(entire.io_output))>>)

get_testcases(id, type, entire, multiple, mode) ==
  IF mode = "MULTIPLE" /\ type = "SCRAPED" /\ ~all(check_multitests(entire, multiple))
  THEN Raise("AssertionError")
  ELSE IF mode = "ONE" \/ type # "SCRAPED"
  THEN Return(<<TestCaseRun(<<id>>, read_file(entire.io_input), read_file(entire.io_output))>>)
  ELSE LET multitests == get_multitests(entire, multiple)
       IN  IF multitests.raises # None THEN multitests
           ELSE Return([idx \in 1..Len(multitests.value) |->
                          TestCaseRun(<<id, idx>>, multitests.value[idx][1],
                                      multitests.value[idx][2])])

\* The files after TestCase.delete.
delete(type, entire, multiple) ==
  [entire |-> IOPair(NoFile, NoFile),
   multiple |-> IF type = "SCRAPED" THEN IOPair(NoFile, NoFile) ELSE multiple]

\* ------------------------------------------------------------------------
\* The scraper's part in the construction of a scraped testcase.

io_prettify(io) ==
  LET stripped == strip(io, {"\n"})
  IN  IF stripped = <<>> \/ stripped[Len(stripped)] # "\n"
      THEN stripped \o <<"\n">> ELSE stripped

\* Mutant of attempt_multitest_output_one_line: the output is not stripped.
attempt_multitest_output_one_line_unstripped(io_output, num_multitests) ==
  LET output_lines == splitlines(io_output)
  IN  IF Len(output_lines) = num_multitests THEN SomeList(output_lines) ELSE NoneList

attempt_multitest_output_one_line(io_output, num_multitests) ==
  LET output_lines == splitlines(strip(io_output, {"\n"}))
  IN  IF Len(output_lines) = num_multitests THEN SomeList(output_lines) ELSE NoneList

\* Mutant of is_yes_no: the line is compared in the case it was written in.
is_yes_no_case_sensitive(line) == line \in {<<"y", "e", "s">>, <<"n", "o">>}

is_yes_no(line) == lower(line) \in {<<"y", "e", "s">>, <<"n", "o">>}

\* Mutant of split_before_yes_no: a yes/no line that directly follows a
\* yes/no line starts no group.
RECURSIVE split_before_yes_no_runs(_)
split_before_yes_no_runs(lines) ==
  IF lines = <<>> THEN <<>>
  ELSE LET starts == {k \in 2..Len(lines) :
                        is_yes_no(lines[k]) /\ ~is_yes_no(lines[k - 1])}
           n == CHOOSE k \in starts : \A j \in starts : k <= j
       IN  IF starts = {} THEN <<lines>>
           ELSE <<SubSeq(lines, 1, n - 1)>>
                  \o split_before_yes_no_runs(SubSeq(lines, n, Len(lines)))

\* more_itertools.split_before with the yes/no predicate: a new group starts
\* before every yes/no line but the first line.
RECURSIVE split_before_yes_no(_)
split_before_yes_no(lines) ==
  IF lines = <<>> THEN <<>>
  ELSE LET starts == {k \in 2..Len(lines) : is_yes_no(lines[k])}
           n == CHOOSE k \in starts : \A j \in starts : k <= j
       IN  IF starts = {} THEN <<lines>>
           ELSE <<SubSeq(lines, 1, n - 1)>>
                  \o split_before_yes_no(SubSeq(lines, n, Len(lines)))

\* Mutant of attempt_multitest_output_yes_no: the groups are returned in the
\* lower case their lines are compared in.
attempt_multitest_output_yes_no_lowered(io_output, num_multitests) ==
  LET output_lines == splitlines(strip(io_output, {"\n"}))
      multitests == split_before_yes_no(output_lines)
  IN  IF /\ Len(output_lines) >= 1
         /\ is_yes_no(output_lines[1])
         /\ Len(multitests) = num_multitests
      THEN SomeList([k \in 1..Len(multitests) |-> lower(join(<<"\n">>, multitests[k]))])
      ELSE NoneList

attempt_multitest_output_yes_no(io_output, num_multitests) ==
  LET output_lines == splitlines(strip(io_output, {"\n"}))
      multitests == split_before_yes_no(output_lines)
  IN  IF /\ Len(output_lines) >= 1
         /\ is_yes_no(output_lines[1])
         /\ Len(multitests) = num_multitests
      THEN SomeList([k \in 1..Len(multitests) |-> join(<<"\n">>, multitests[k])])
      ELSE NoneList

attempt_multitest_output(io_output, num_multitests) ==
  LET attempt_one_line == attempt_multitest_output_one_line(io_output, num_multitests)
      attempt_yes_no == attempt_multitest_output_yes_no(io_output, num_multitests)
  IN  IF ~attempt_one_line.is_none THEN attempt_one_line
      ELSE IF ~attempt_yes_no.is_none THEN attempt_yes_no
      ELSE NoneList

\* The lines of the input whose div carries the multitest number num.
RECURSIVE multitest_lines(_, _, _)
multitest_lines(strings, nums, num) ==
  IF strings = <<>> THEN <<>>
  ELSE (IF Head(nums) = num THEN <<Head(strings)>> ELSE <<>>)
         \o multitest_lines(Tail(strings), Tail(nums), num)

\* One example of a problem page as scrape_problems reads it: the strings of
\* the input and of the output tag and the multitest number of every input
\* line (numbers count up from 0; all 0 is an input without multitests).
scrape_testcase(input_strings, multitest_nums, output_strings) ==
  LET io_input == io_prettify(join(<<"\n">>, input_strings))
      num_keys == multitest_nums[Len(multitest_nums)] + 1
      io_multitest_inputs ==
        IF num_keys > 1
        THEN SomeList([k \in 1..num_keys |->
                         join(<<"\n">>, multitest_lines(input_strings, multitest_nums, k - 1))])
        ELSE NoneList
      io_output == io_prettify(join(<<"\n">>, output_strings))
      io_multitest_outputs ==
        IF ~io_multitest_inputs.is_none
        THEN attempt_multitest_output(io_output, int(io_multitest_inputs.list[1]))
        ELSE NoneList
  IN  [io_pair |-> <<io_input, io_output>>,
       io_multitest_inputs |-> io_multitest_inputs,
       io_multitest_outputs |-> io_multitest_outputs]

\* ------------------------------------------------------------------------
\* One testcase: construction, the calls on it and the editor.

\* The strings of the output tags followed here: two lines, and a line with
\* its line end.
OutputStrings == {<<"a">>, <<"y", "e", "s">>, <<"a", "\n">>}


\* The examples: a count line t and t one-line tests, the input lines either
\* numbered by test or all numbered 0, with up to MaxSubtests output strings.
ScrapedExamples ==
  {scrape_testcase(<<str(t)>> \o [k \in 1..t |-> <<"1">>],
                   [k \in 1..(t + 1) |-> IF numbered THEN k - 1 ELSE 0],
                   output_strings) :
     t \in 1..MaxSubtests, numbered \in BOOLEAN,
     output_strings \in UNION {[1..n -> OutputStrings] : n \in 1..MaxSubtests}}

\* ScraperCodeforces.scrape_problems passes a problem's multitest inputs (and
\* outputs) on only if every example of the problem has them.
problem_multitests(example, all_inputs, all_outputs) ==
  [io_multitest_inputs |->
     IF all_inputs THEN example.io_multitest_inputs ELSE NoneList,
   io_multitest_outputs |->
     IF all_inputs /\ all_outputs THEN example.io_multitest_outputs ELSE NoneList]

Called(op, mode, return) ==
  [op |-> op, mode |-> mode, raises |-> return.raises, value |-> return.value]

\* TestCase.__init__ of a scraped testcase, parsing online.
TestCaseInitOnline ==
  \E example \in ScrapedExamples, all_inputs, all_outputs \in BOOLEAN :
    LET lists == problem_multitests(example, all_inputs, all_outputs)
        created == IOPair(File(<<>>), File(<<>>))
    IN  /\ testcase_id = 1
        /\ testcase_type = "SCRAPED"
        /\ entire_testcase = IOPair(File(example.io_pair[1]), File(example.io_pair[2]))
        /\ multitests_inputs = lists.io_multitest_inputs
        /\ multitests_outputs = lists.io_multitest_outputs
        /\ multiple_testcases =
             set_multitest_files(entire_testcase, created,
                                 lists.io_multitest_inputs, lists.io_multitest_outputs)

\* TestCase.__init__ of a testcase the user adds.
TestCaseInitNotScraped ==
  /\ testcase_id = 1
  /\ testcase_type = "USER_ADDED"
  /\ entire_testcase = IOPair(File(<<>>), File(<<>>))
  /\ multitests_inputs = NoneList
  /\ multitests_outputs = NoneList
  /\ multiple_testcases = NoIOPair

TestCaseInit ==
  /\ NoRunner
  /\ NoProblem
  /\ call = NoCall
  /\ time_limit = NoTimeLimit
  /\ testcase_mode = None
  /\ checker = None
  /\ compile_binds = FALSE
  /\ TestCaseInitOnline \/ TestCaseInitNotScraped
  /\ edits = 0
  /\ last_call = Called("__init__", None, Return(<<>>))

files_exist == entire_testcase.io_input.exists

\* The contents of a file after one keystroke in the editor: a newline typed
\* at the end of a line or of the file, a "1" typed at the end of the file, or
\* the deletion of a newline, of the file's first character or of its last.
insert(contents, at, char) ==
  SubSeq(contents, 1, at) \o <<char>> \o SubSeq(contents, at + 1, Len(contents))

remove(contents, at) ==
  SubSeq(contents, 1, at - 1) \o SubSeq(contents, at + 1, Len(contents))

line_ends(contents) ==
  {at \in 1..Len(contents) : contents[at] = "\n" \/ at = Len(contents)}

Edited(contents) ==
  {insert(contents, at, "\n") : at \in line_ends(contents) \cup {Len(contents)}}
  \cup {insert(contents, Len(contents), "1")}
  \cup {remove(contents, at) : at \in (line_ends(contents) \cup {1}) \cap (1..Len(contents))}

\* The user edits a multitest file of a scraped testcase (edit_multitests) or
\* a file of another testcase (edit_testcase) in the text editor.
EditorSession(io_file) ==
  /\ files_exist
  /\ edits < MaxEdits
  /\ edits' = edits + 1
  /\ LET pair == IF testcase_type = "SCRAPED" THEN multiple_testcases ELSE entire_testcase
         file == IF io_file = "input" THEN pair.io_input ELSE pair.io_output
     IN  \E contents \in Edited(read_file(file)) :
           LET edited == IF io_file = "input"
                         THEN IOPair(File(contents), pair.io_output)
                         ELSE IOPair(pair.io_input, File(contents))
           IN  IF testcase_type = "SCRAPED"
               THEN multiple_testcases' = edited /\ UNCHANGED entire_testcase
               ELSE entire_testcase' = edited /\ UNCHANGED multiple_testcases
  /\ last_call' = Called("edit", None, Return(<<>>))
  /\ UNCHANGED <<testcase_id, testcase_type, multitests_inputs, multitests_outputs>>
  /\ UNCHANGED <<call, inputs, runner, problem>>

\* set_multitest_files() as edit_multitests and the offline constructor call it.
SetMultitestFiles ==
  /\ files_exist
  /\ testcase_type = "SCRAPED"
  /\ multiple_testcases' =
       set_multitest_files(entire_testcase, multiple_testcases, NoneList, NoneList)
  /\ last_call' = Called("set_multitest_files", None, Return(<<>>))
  /\ UNCHANGED <<testcase_id, testcase_type, entire_testcase, edits,
                 multitests_inputs, multitests_outputs>>
  /\ UNCHANGED <<call, inputs, runner, problem>>

CheckMultitests ==
  /\ files_exist
  /\ testcase_type = "SCRAPED"
  /\ last_call' = Called("check_multitests", None,
                         Return(check_multitests(entire_testcase, multiple_testcases)))
  /\ UNCHANGED <<testcase_id, testcase_type, entire_testcase, multiple_testcases, edits,
                 multitests_inputs, multitests_outputs>>
  /\ UNCHANGED <<call, inputs, runner, problem>>

\* The bool it returns is held as a tuple of one, as every value of last_call
\* is a tuple.
CheckMultitestMode ==
  /\ files_exist
  /\ last_call' = Called("check_multitest_mode", None,
                         Return(<<check_multitest_mode(testcase_type, entire_testcase,
                                                       multiple_testcases)>>))
  /\ UNCHANGED <<testcase_id, testcase_type, entire_testcase, multiple_testcases, edits,
                 multitests_inputs, multitests_outputs>>
  /\ UNCHANGED <<call, inputs, runner, problem>>

GetTestcases(mode) ==
  /\ files_exist
  /\ last_call' = Called("get_testcases", mode,
                         get_testcases(testcase_id, testcase_type, entire_testcase,
                                       multiple_testcases, mode))
  /\ UNCHANGED <<testcase_id, testcase_type, entire_testcase, multiple_testcases, edits,
                 multitests_inputs, multitests_outputs>>
  /\ UNCHANGED <<call, inputs, runner, problem>>

Delete ==
  /\ files_exist
  /\ LET deleted_files == delete(testcase_type, entire_testcase, multiple_testcases)
     IN  /\ entire_testcase' = deleted_files.entire
         /\ multiple_testcases' = deleted_files.multiple
  /\ last_call' = Called("delete", None, Return(<<>>))
  /\ UNCHANGED <<testcase_id, testcase_type, edits, multitests_inputs, multitests_outputs>>
  /\ UNCHANGED <<call, inputs, runner, problem>>

\* Mutant of multitests_edit_offered: every file is offered.
multitests_edit_offered_always(io_file_check, only_necessary) == TRUE

\* `if not io_file_check or not only_necessary:`
multitests_edit_offered(io_file_check, only_necessary) == ~io_file_check \/ ~only_necessary

\* One round of the loop of edit_multitests: what the round saw and did.
EditRound(io_file, io_file_check, offered, opened, considered) ==
  [io_file |-> io_file, io_file_check |-> io_file_check, offered |-> offered,
   opened |-> opened, considered |-> considered]

\* The file of a pair an io_file names, and the pair with that file replaced.
io_file_of(pair, io_file) == IF io_file = "input" THEN pair.io_input ELSE pair.io_output
with_io_file(pair, io_file, file) ==
  IF io_file = "input" THEN IOPair(file, pair.io_output) ELSE IOPair(pair.io_input, file)

\* One round of the loop of edit_multitests on the files multiple: the user
\* is offered the file or not, takes the offer or not, and leaves the editor
\* with the file as it was or one keystroke away (as long as can_edit).  The
\* result is every (files, round, whether the method returned False in it).
edit_multitests_round(entire, multiple, io_file, check_id, only_necessary, shortcircuit, can_edit) ==
  LET io_file_check == check_multitests(entire, multiple)[check_id]
      contents == read_file(io_file_of(multiple, io_file))
  IN  IF multitests_edit_offered(io_file_check, only_necessary)
      THEN {LET edited == with_io_file(multiple, io_file, File(left))
                split_result == check_multitests(entire, edited)[check_id]
            IN  [multiple |-> edited,
                 round |-> EditRound(io_file, io_file_check, TRUE, TRUE, multiple),
                 returned |-> ~split_result /\ shortcircuit]
              : left \in {contents} \cup (IF can_edit THEN Edited(contents) ELSE {})}
           \cup {[multiple |-> multiple,
                  round |-> EditRound(io_file, io_file_check, TRUE, FALSE, multiple),
                  returned |-> ~io_file_check /\ shortcircuit]}
      ELSE {[multiple |-> multiple,
             round |-> EditRound(io_file, io_file_check, FALSE, FALSE, multiple),
             returned |-> FALSE]}

\* The keystrokes of a round.
keystrokes(round_result) ==
  IF read_file(io_file_of(round_result.multiple, round_result.round.io_file))
       = read_file(io_file_of(round_result.round.considered, round_result.round.io_file))
  THEN 0 ELSE 1

\* TestCase.edit_multitests on a scraped testcase: every (files, rounds,
\* result) it can end with, when the user has keystrokes_left keystrokes.
edit_multitests(entire, multiple, only_necessary, shortcircuit, keystrokes_left) ==
  LET set == set_multitest_files(entire, multiple, NoneList, NoneList) IN
  UNION {
    IF r1.returned
    THEN {[multiple |-> r1.multiple, rounds |-> <<r1.round>>, keystrokes |-> keystrokes(r1),
           result |-> FALSE]}
    ELSE {[multiple |-> r2.multiple, rounds |-> <<r1.round, r2.round>>,
           keystrokes |-> keystrokes(r1) + keystrokes(r2),
           result |-> ~r2.returned /\ all(check_multitests(entire, r2.multiple))]
            : r2 \in edit_multitests_round(entire, r1.multiple, "output", 2, only_necessary,
                                           shortcircuit, keystrokes_left - keystrokes(r1) > 0)}
    : r1 \in edit_multitests_round(entire, set, "input", 1, only_necessary, shortcircuit,
                                   keystrokes_left > 0)}

\* A call of edit_multitests; edits counts the keystrokes.  On a testcase
\* that is not scraped the assertion at its top fails.
EditMultitests(only_necessary, shortcircuit) ==
  /\ files_exist
  /\ last_call.op = "__init__"
  /\ IF testcase_type # "SCRAPED"
     THEN /\ last_call' = Called("edit_multitests", <<only_necessary, shortcircuit>>,
                                 Raise("AssertionError"))
          /\ UNCHANGED <<multiple_testcases, edits>>
     ELSE \E done \in edit_multitests(entire_testcase, multiple_testcases, only_necessary,
                                      shortcircuit, MaxEdits - edits) :
            /\ multiple_testcases' = done.multiple
            /\ edits' = edits + done.keystrokes
            /\ last_call' = Called("edit_multitests", <<only_necessary, shortcircuit>>,
                                   Return([rounds |-> done.rounds, result |-> done.result]))
  /\ UNCHANGED <<testcase_id, testcase_type, entire_testcase, multitests_inputs,
                 multitests_outputs>>
  /\ UNCHANGED <<call, inputs, runner, problem>>

TestCaseNext ==
  \/ \E io_file \in {"input", "output"} : EditorSession(io_file)
  \/ SetMultitestFiles
  \/ CheckMultitests
  \/ CheckMultitestMode
  \/ \E mode \in TestCaseMode : GetTestcases(mode)
  \/ Delete

TestCaseSpec == TestCaseInit /\ [][TestCaseNext]_vars

\* The calls of edit_multitests on a testcase, from its construction on.
EditNext ==
  \E only_necessary, shortcircuit \in BOOLEAN : EditMultitests(only_necessary, shortcircuit)

EditSpec == TestCaseInit /\ [][EditNext]_vars

\* ------------------------------------------------------------------------
\* Properties of one testcase.

called(op) == last_call.op = op

\* The testcase is scraped and its multitest files pass check_multitests() on
\* both input and output.
validated ==
  /\ testcase_type = "SCRAPED"
  /\ files_exist
  /\ all(check_multitests(entire_testcase, multiple_testcases))

\* What the validity check is said to look at.  body is a multitest file
\* after its header.
body(file) == SubSeq(read_file(file), Len(MULTITEST_HEADER) + 1, Len(read_file(file)))

header_and_tokens(multitest_file, entire_file) ==
  /\ startswith(read_file(multitest_file), MULTITEST_HEADER)
  /\ split_whitespace(body(multitest_file)) = split_whitespace(read_file(entire_file))

first_line(s) ==
  IF \E k \in 1..Len(s) : s[k] = "\n"
  THEN SubSeq(s, 1, (CHOOSE k \in 1..Len(s) :
                       s[k] = "\n" /\ \A j \in 1..(k - 1) : s[j] # "\n") - 1)
  ELSE s

triple_newlines(s) ==
  {k \in 1..(Len(s) - 2) : s[k] = "\n" /\ s[k + 1] = "\n" /\ s[k + 2] = "\n"}

double_newlines(s) == {k \in 1..(Len(s) - 1) : s[k] = "\n" /\ s[k + 1] = "\n"}

\* The count T on the first line of the multitest input.
count_line == first_line(body(multiple_testcases.io_input))

\* C12: get_testcases(MULTIPLE) on a scraped testcase whose multitest files do
\* not pass check_multitests() on both input and output raises the assertion
\* and returns no run units.
C12_UnvalidatedMultipleAsserts ==
  (/\ called("get_testcases")
   /\ last_call.mode = "MULTIPLE"
   /\ testcase_type = "SCRAPED"
   /\ ~validated)
    => /\ last_call.raises = "AssertionError"
       /\ last_call.value = <<>>

\* The assertion was raised for a testcase whose input is split and whose
\* output is not.
C12_Witness ==
  /\ called("get_testcases")
  /\ last_call.mode = "MULTIPLE"
  /\ testcase_type = "SCRAPED"
  /\ check_multitests(entire_testcase, multiple_testcases) = <<TRUE, FALSE>>
  /\ last_call.raises = "AssertionError"

\* C13: delete on a scraped testcase raises an assertion error and deletes
\* none of the testcase's files.
C13_DeleteScrapedAsserts ==
  (called("delete") /\ testcase_type = "SCRAPED")
    => /\ last_call.raises = "AssertionError"
       /\ entire_testcase.io_input.exists
       /\ entire_testcase.io_output.exists
       /\ multiple_testcases.io_input.exists
       /\ multiple_testcases.io_output.exists

\* C16: check_multitests() of a scraped testcase returns (True, True) exactly
\* when both multitest files start with the header and have the tokens of the
\* entire testcase, the first input line after the header is all digits (T),
\* the input has no triple newline and T double newlines, and the output has
\* no triple newline and T - 1 double newlines; when the input fails the
\* header and token check or its first line is not all digits, it returns
\* (False, False).
C16_CheckMultitestsValidity ==
  called("check_multitests") =>
    LET input_checked ==
          header_and_tokens(multiple_testcases.io_input, entire_testcase.io_input)
        output_checked ==
          header_and_tokens(multiple_testcases.io_output, entire_testcase.io_output)
    IN  /\ (last_call.value = <<TRUE, TRUE>>)
             <=> /\ input_checked
                 /\ output_checked
                 /\ isdigit(count_line)
                 /\ triple_newlines(body(multiple_testcases.io_input)) = {}
                 /\ Cardinality(double_newlines(body(multiple_testcases.io_input)))
                      = int(count_line)
                 /\ triple_newlines(body(multiple_testcases.io_output)) = {}
                 /\ Cardinality(double_newlines(body(multiple_testcases.io_output)))
                      = int(count_line) - 1
        /\ (~input_checked \/ ~isdigit(count_line))
             => last_call.value = <<FALSE, FALSE>>

\* check_multitests() returned (True, True) after an editor session.
C16_Witness ==
  /\ called("check_multitests")
  /\ last_call.value = <<TRUE, TRUE>>
  /\ edits = MaxEdits

\* C17: get_testcases in mode ONE, or of a testcase that is not scraped,
\* returns one run unit with the bare id and the entire input and output; in
\* mode MULTIPLE of a validated scraped testcase with count T it returns T
\* run units with the ids id-1 .. id-T in order, each input beginning with the
\* count line 1.
C17_GetTestcasesShape ==
  called("get_testcases") =>
    IF last_call.mode = "ONE" \/ testcase_type # "SCRAPED"
    THEN /\ last_call.raises = None
         /\ last_call.value = <<TestCaseRun(<<testcase_id>>,
                                            read_file(entire_testcase.io_input),
                                            read_file(entire_testcase.io_output))>>
    ELSE validated =>
           /\ last_call.raises = None
           /\ Len(last_call.value) = int(count_line)
           /\ \A k \in 1..Len(last_call.value) :
                /\ last_call.value[k].id = <<testcase_id, k>>
                /\ startswith(last_call.value[k].io_input, <<"1", "\n">>)

\* The run units of a call in mode MULTIPLE, joined in order.
RECURSIVE concat(_)
concat(strs) == IF strs = <<>> THEN <<>> ELSE Head(strs) \o concat(Tail(strs))

unit_outputs == [k \in 1..Len(last_call.value) |-> last_call.value[k].io_output]

\* The inputs without the count line get_multitests puts in front of each.
unit_inputs ==
  [k \in 1..Len(last_call.value) |->
     removeprefix(last_call.value[k].io_input, <<"1", "\n">>)]

\* What get_testcases(ONE) returns for the testcase.
one_unit ==
  get_testcases(testcase_id, testcase_type, entire_testcase, multiple_testcases,
                "ONE").value[1]

\* The multitest files are the ones the constructor wrote.
as_seeded ==
  multiple_testcases =
    set_multitest_files(entire_testcase, IOPair(File(<<>>), File(<<>>)),
                        multitests_inputs, multitests_outputs)

no_empty_line ==
  /\ double_newlines(read_file(entire_testcase.io_input)) = {}
  /\ double_newlines(read_file(entire_testcase.io_output)) = {}

C19_CheckMultitestModeReadOnly ==
  [][(last_call'.op = "check_multitest_mode")
       => /\ UNCHANGED <<testcase_id, testcase_type, entire_testcase, multiple_testcases,
                         multitests_inputs, multitests_outputs>>
          /\ last_call'.raises = None
          /\ last_call'.value =
               <<testcase_type # "SCRAPED"
                   \/ all(check_multitests(entire_testcase, multiple_testcases))>>
          /\ called("check_multitest_mode") => last_call'.value = last_call.value]_vars

\* check_multitest_mode() returned False for a scraped testcase after an editor
\* session.
C19_Witness ==
  /\ called("check_multitest_mode")
  /\ testcase_type = "SCRAPED"
  /\ last_call.value = <<FALSE>>
  /\ edits = MaxEdits

\* The testcase was constructed with the multitest inputs of the page, both
\* heuristics failed on its output, and no file was edited since.
unsplit_output ==
  /\ testcase_type = "SCRAPED"
  /\ ~multitests_inputs.is_none
  /\ attempt_multitest_output(read_file(entire_testcase.io_output),
                              int(multitests_inputs.list[1])).is_none
  /\ multitests_outputs.is_none
  /\ edits = 0

\* C20 as it is stated: for a scraped testcase constructed without a
\* heuristic split of its output, check_multitests() returns False for the
\* output, whatever the output and the count T, until a file is edited.
C20_UnsplitOutputInvalid ==
  (called("check_multitests") /\ unsplit_output) => last_call.value[2] = FALSE

\* C20, amended: for a scraped testcase constructed without a heuristic split
\* of its output, check_multitests() returns False for the output until a file
\* is edited, unless the entire output has no triple newline and exactly T - 1
\* double newlines (for T = 1: no empty line); then it returns True for it.
C20_UnsplitOutputInvalidButCount ==
  (called("check_multitests") /\ unsplit_output)
    => (last_call.value[2]
          <=> /\ triple_newlines(read_file(entire_testcase.io_output)) = {}
              /\ Cardinality(double_newlines(read_file(entire_testcase.io_output)))
                   = int(multitests_inputs.list[1]) - 1)

\* The output of a testcase with two tests was left unsplit and is reported
\* as not split.
C20_Witness ==
  /\ called("check_multitests")
  /\ unsplit_output
  /\ int(multitests_inputs.list[1]) = 2
  /\ last_call.value[2] = FALSE

\* ------------------------------------------------------------------------
\* The functions of the scraper, of the checkers and of Execution, called on
\* their own: every action is one call, on arguments of the sets below.  The
\* functions keep no state, so one call is followed.  Runner.custom_invocation
\* is one more such call.

\* The lines of the output of an example on a problem page.
OutputLineValues == {<<>>, <<"Y", "E", "S">>, <<"N", "O">>, <<"1">>, <<"2">>}

\* The outputs of at most MaxLines lines; an output that begins or ends with
\* empty lines begins or ends with newlines.
ScrapedOutputs ==
  {join(<<"\n">>, lines) :
     lines \in UNION {[1..n -> OutputLineValues] : n \in 0..MaxLines}}

\* The number of multitests the first line of an input gives.
NumMultitests == 0..(MaxSubtests + 1)

\* The tokens of the outputs the checkers compare: "no" in two cases, and a
\* token that is neither yes nor no and that lower() changes.
Tokens == {<<"n", "o">>, <<"N", "O">>, <<"O">>}

\* The outputs of n tokens: whitespace or nothing, then the tokens with one
\* whitespace character before each but the first.
RECURSIVE OutputsOfTokens(_)
OutputsOfTokens(n) ==
  IF n = 0 THEN {<<>>, <<"\n">>}
  ELSE IF n = 1 THEN {lead \o token : lead \in OutputsOfTokens(0), token \in Tokens}
  ELSE {output \o <<sep>> \o token :
          output \in OutputsOfTokens(n - 1), sep \in Whitespace, token \in Tokens}

CheckerOutputs == UNION {OutputsOfTokens(n) : n \in 0..MaxTokens}

\* What a program did when Execution.run ran it under the timeout wrapper:
\* the wrapper stopped it at the deadline, or it exited by itself with
\* return_code; stdout is what it had written.
ProgramReturnCodes == RunReturnCodes
Stdouts == {<<>>, <<"\n">>, <<"n", "o">>}
Processes ==
  [stopped : BOOLEAN, return_code : ProgramReturnCodes, stdout : Stdouts]

\* The io the custom checker is called on.
CustomCheckerIO == {<<>>, <<"1", "\n">>, io_delim}

\* One call of Execution.run: its arguments, the process and the result.
ExecutionRunOf(file, io_input, limit, process) ==
  [file |-> file, io_input |-> io_input, time_limit |-> limit, process |-> process,
   result |-> Execution_run_result(process.stopped, process.return_code, process.stdout)]

\* call after a call of function: runs are the calls of Execution in it.
CallOf(function, args, runs, result) ==
  [function |-> function, args |-> args, runs |-> runs, result |-> result]

CallInit ==
  /\ NoRunner
  /\ NoProblem
  /\ NoTestCase
  /\ time_limit = NoTimeLimit
  /\ testcase_mode = None
  /\ checker = None
  /\ compile_binds = FALSE
  /\ call = NoCall

AttemptMultitestOutputOneLine ==
  /\ call = NoCall
  /\ \E io_output \in ScrapedOutputs, num_multitests \in NumMultitests :
       call' = CallOf("attempt_multitest_output_one_line", <<io_output, num_multitests>>, <<>>,
                      attempt_multitest_output_one_line(io_output, num_multitests))
  /\ UNCHANGED <<inputs, runner, problem, testcase>>

AttemptMultitestOutputYesNo ==
  /\ call = NoCall
  /\ \E io_output \in ScrapedOutputs, num_multitests \in NumMultitests :
       call' = CallOf("attempt_multitest_output_yes_no", <<io_output, num_multitests>>, <<>>,
                      attempt_multitest_output_yes_no(io_output, num_multitests))
  /\ UNCHANGED <<inputs, runner, problem, testcase>>

AttemptMultitestOutput ==
  /\ call = NoCall
  /\ \E io_output \in ScrapedOutputs, num_multitests \in NumMultitests :
       call' = CallOf("attempt_multitest_output", <<io_output, num_multitests>>, <<>>,
                      attempt_multitest_output(io_output, num_multitests))
  /\ UNCHANGED <<inputs, runner, problem, testcase>>

CheckerTokensCheck ==
  /\ call = NoCall
  /\ \E expected_output, user_output \in CheckerOutputs :
       call' = CallOf("CheckerTokens.check", <<<<>>, expected_output, user_output>>, <<>>,
                      CheckerTokens_check(<<>>, expected_output, user_output))
  /\ UNCHANGED <<inputs, runner, problem, testcase>>

CheckerYesNoCheck ==
  /\ call = NoCall
  /\ \E expected_output, user_output \in CheckerOutputs :
       call' = CallOf("CheckerYesNo.check", <<<<>>, expected_output, user_output>>, <<>>,
                      CheckerYesNo_check(<<>>, expected_output, user_output))
  /\ UNCHANGED <<inputs, runner, problem, testcase>>

CheckerCustomCheck ==
  /\ call = NoCall
  /\ \E io_input, expected_output, user_output \in CustomCheckerIO,
        limit \in TimeLimits, process \in Processes :
       LET run == CheckerCustom_run(io_input, expected_output, user_output, limit)
           ran == ExecutionRunOf(run.file, run.io_input, run.time_limit, process)
       IN  call' = CallOf("CheckerCustom.check",
                          <<io_input, expected_output, user_output, limit>>,
                          <<ran>>, CheckerCustom_result(ran.result))
  /\ UNCHANGED <<inputs, runner, problem, testcase>>

ExecutionRun ==
  /\ call = NoCall
  /\ \E io_input \in CustomCheckerIO, limit \in TimeLimits, process \in Processes :
       LET ran == ExecutionRunOf("main_out", io_input, limit, process)
       IN  call' = CallOf("Execution.run", <<"main_out", io_input, limit>>,
                          <<ran>>, ran.result)
  /\ UNCHANGED <<inputs, runner, problem, testcase>>

\* --- Runner.custom_invocation (src/src/runners.py, lines 31-54), called by
\* the custom invocation command of Problem.process_commands.

\* long_name of process_commands, for the file argument of the command.
long_names ==
  [file \in {"m", "c", "b", "g"} |->
     CASE file = "m" -> "main"
       [] file = "c" -> "checker"
       [] file = "b" -> "bruteforce"
       [] file = "g" -> "generator"]

\* Problem.get_cpp_file_pair: the .cpp file and the .out file of a name.
get_cpp_file_pair(file) ==
  [file_cpp |-> <<long_names[file], ".cpp">>, file_out |-> <<long_names[file], ".out">>]

\* One call of Execution.compile or Execution.execute with what it returned.
ExecutionCallOf(function, args, success) ==
  [function |-> function, args |-> args, success |-> success]

\* Mutant of custom_invocation_launches: the terminal is opened whatever the
\* compilation gave.
custom_invocation_launches_always(success) == TRUE

\* `if compile_result.success:`
custom_invocation_launches(success) == success

\* Runner.custom_invocation: the messages it prints, the calls of Execution
\* it makes, in order, and how it ends.  binds is whether Execution.compile
\* takes the compiler as its third parameter (see compile_binds); when it
\* does not, the call raises TypeError after the start message.
custom_invocation(file_cpp, file_out, one_char_name, long_name, binds, return_code) ==
  LET start == <<"custom_invocation_start", one_char_name>>
      success == Execution_compile(return_code)
      compile_verdict == IF success THEN "SUCCESS" ELSE "COMPILATION_ERROR"
  IN  IF ~binds
      THEN [messages |-> <<start>>, executions |-> <<>>, result |-> Raise("TypeError")]
      ELSE [messages |->
              <<start, <<"custom_invocation_finish", one_char_name, long_name, compile_verdict>> >>,
            executions |->
              <<ExecutionCallOf("Execution.compile", <<file_cpp, file_out, "cpp_compiler">>, success)>>
              \o (IF custom_invocation_launches(success)
                  THEN <<ExecutionCallOf("Execution.execute",
                                         <<"open", "-a", "Terminal", file_out>>, TRUE)>>
                  ELSE <<>>),
            result |-> Return(None)]

CustomInvocation ==
  /\ call = NoCall
  /\ \E file \in DOMAIN long_names, binds \in BOOLEAN, return_code \in CompileReturnCodes :
       LET pair == get_cpp_file_pair(file)
           done == custom_invocation(pair.file_cpp, pair.file_out, file, long_names[file],
                                     binds, return_code)
       IN  call' = CallOf("Runner.custom_invocation",
                          <<pair.file_cpp, pair.file_out, file, long_names[file]>>,
                          done.executions,
                          [raises |-> done.result.raises, messages |-> done.messages])
  /\ UNCHANGED <<inputs, runner, problem, testcase>>

CallNext ==
  \/ CustomInvocation
  \/ AttemptMultitestOutputOneLine
  \/ AttemptMultitestOutputYesNo
  \/ AttemptMultitestOutput
  \/ CheckerTokensCheck
  \/ CheckerYesNoCheck
  \/ CheckerCustomCheck
  \/ ExecutionRun

CallSpec == CallInit /\ [][CallNext]_vars

\* ------------------------------------------------------------------------
\* Properties of the heuristics that split a scraped output.

called_function(function) == call.function = function

\* The lines of an output: what is between its newlines, without the empty
\* lines at its beginning and at its end.
stripped_lines(io_output) ==
  LET all_lines == split(io_output, <<"\n">>)
      full == {k \in 1..Len(all_lines) : all_lines[k] # <<>>}
  IN  IF full = {} THEN <<>>
      ELSE SubSeq(all_lines, CHOOSE k \in full : \A j \in full : k <= j,
                  CHOOSE k \in full : \A j \in full : k >= j)

\* C21: the one-line heuristic succeeds iff the number of lines of the
\* output, stripped of leading and trailing newlines, is T, and then returns
\* these lines in order; attempt_multitest_output returns its result when it
\* succeeds and the result of the yes/no heuristic only when it fails.
C21_OneLineHeuristic ==
  /\ called_function("attempt_multitest_output_one_line") =>
       LET lines == stripped_lines(call.args[1]) IN
         /\ ~call.result.is_none <=> Len(lines) = call.args[2]
         /\ ~call.result.is_none => call.result.list = lines
  /\ called_function("attempt_multitest_output") =>
       LET lines == stripped_lines(call.args[1]) IN
         IF Len(lines) = call.args[2]
         THEN call.result = SomeList(lines)
         ELSE call.result = attempt_multitest_output_yes_no(call.args[1], call.args[2])

\* An output of two lines between newlines is split in two for T = 2.
C21_Witness ==
  /\ called_function("attempt_multitest_output_one_line")
  /\ call.args = << <<"\n", "1", "\n", "2", "\n">>, 2 >>
  /\ call.result = SomeList(<< <<"1">>, <<"2">> >>)

\* The lines that are "yes" or "no" in some case.
YesNoSpellings ==
  {<<y, e, s>> : y \in {"y", "Y"}, e \in {"e", "E"}, s \in {"s", "S"}}
  \cup {<<n, o>> : n \in {"n", "N"}, o \in {"o", "O"}}

yes_no_positions(lines) == {k \in 1..Len(lines) : lines[k] \in YesNoSpellings}

\* The k-th smallest element of a set of numbers.
nth(set, k) == CHOOSE x \in set : Cardinality({y \in set : y < x}) = k - 1

\* The lines from the k-th yes/no line up to the next yes/no line.
yes_no_group(lines, k) ==
  LET positions == yes_no_positions(lines)
  IN  SubSeq(lines, nth(positions, k),
             IF k = Cardinality(positions) THEN Len(lines)
             ELSE nth(positions, k + 1) - 1)

\* C22: the yes/no heuristic succeeds iff the first line is a yes/no line
\* and the number of yes/no lines, each of which starts a group, is T; the
\* output of subtest k is then the k-th group, its lines joined by newlines.
C22_YesNoHeuristic ==
  called_function("attempt_multitest_output_yes_no") =>
    LET lines == stripped_lines(call.args[1])
        positions == yes_no_positions(lines)
    IN  /\ ~call.result.is_none <=>
             (1 \in positions /\ Cardinality(positions) = call.args[2])
        /\ ~call.result.is_none =>
             /\ Len(call.result.list) = call.args[2]
             /\ \A k \in 1..call.args[2] :
                  call.result.list[k] = join(<<"\n">>, yes_no_group(lines, k))

\* Two groups, the first of two lines.
C22_Witness ==
  /\ called_function("attempt_multitest_output_yes_no")
  /\ call.args = << <<"Y", "E", "S", "\n", "1", "\n", "N", "O">>, 2 >>
  /\ call.result = SomeList(<< <<"Y", "E", "S", "\n", "1">>, <<"N", "O">> >>)

\* The lines YES, 1, NO, NO, 2.
ConsecutiveYesNoLines ==
  << <<"Y", "E", "S">>, <<"1">>, <<"N", "O">>, <<"N", "O">>, <<"2">> >>

\* C23 as claimed: for T = 2 and the lines YES, 1, NO, NO, 2 the yes/no
\* heuristic returns the two groups [YES, 1] and [NO, NO, 2].
C23_ConsecutiveYesNoTwoGroups ==
  (/\ called_function("attempt_multitest_output_yes_no")
   /\ stripped_lines(call.args[1]) = ConsecutiveYesNoLines
   /\ call.args[2] = 2)
    => call.result =
         SomeList(<< join(<<"\n">>, SubSeq(ConsecutiveYesNoLines, 1, 2)),
                     join(<<"\n">>, SubSeq(ConsecutiveYesNoLines, 3, 5)) >>)

\* C23, amended: on the lines YES, 1, NO, NO, 2 the yes/no heuristic fails
\* for T = 2 and returns the three groups [YES, 1], [NO] and [NO, 2] for
\* T = 3: each of the two NO lines starts a group.
C23_ConsecutiveYesNoThreeGroups ==
  (/\ called_function("attempt_multitest_output_yes_no")
   /\ stripped_lines(call.args[1]) = ConsecutiveYesNoLines)
    => /\ call.args[2] = 2 => call.result.is_none
       /\ call.args[2] = 3 =>
            call.result =
              SomeList(<< join(<<"\n">>, SubSeq(ConsecutiveYesNoLines, 1, 2)),
                          join(<<"\n">>, SubSeq(ConsecutiveYesNoLines, 3, 3)),
                          join(<<"\n">>, SubSeq(ConsecutiveYesNoLines, 4, 5)) >>)

C23_Witness ==
  /\ called_function("attempt_multitest_output_yes_no")
  /\ stripped_lines(call.args[1]) = ConsecutiveYesNoLines
  /\ call.args[2] = 3
  /\ Len(call.result.list) = 3

\* ------------------------------------------------------------------------
\* Properties of the checkers and of Execution.run.

\* The tokens of an output: its maximal runs of characters that are not
\* whitespace, from the positions where they begin and end.
tokens_of(output) ==
  LET begins == {k \in 1..Len(output) :
                   output[k] \notin Whitespace /\ (k = 1 \/ output[k - 1] \in Whitespace)}
      ends == {k \in 1..Len(output) :
                 output[k] \notin Whitespace
                 /\ (k = Len(output) \/ output[k + 1] \in Whitespace)}
  IN  [i \in 1..Cardinality(begins) |-> SubSeq(output, nth(begins, i), nth(ends, i))]

\* The positions at which two token sequences of one length differ.
differing(expected_tokens, user_tokens) ==
  {k \in 1..Len(expected_tokens) : expected_tokens[k] # user_tokens[k]}

\* C24: the token checker accepts iff the token sequences of the expected
\* and of the user output are equal; otherwise the answer is wrong, with the
\* reason "Expected n tokens, got m" when the numbers of tokens differ, and
\* with the expected token, the user's token and the smallest 1-based index
\* at which they differ when the numbers are equal.
C24_TokenChecker ==
  called_function("CheckerTokens.check") =>
    LET expected_tokens == tokens_of(call.args[2])
        user_tokens == tokens_of(call.args[3])
        wrong == differing(expected_tokens, user_tokens)
        first == CHOOSE k \in wrong : \A j \in wrong : k <= j
    IN  /\ call.result.result_type =
             IF expected_tokens = user_tokens THEN "ACCEPTED" ELSE "WRONG_ANSWER"
        /\ Len(expected_tokens) # Len(user_tokens) =>
             call.result.wrong_answer_reason =
               SomeStr(<<"Expected ">> \o str(Len(expected_tokens))
                         \o <<" tokens, got ">> \o str(Len(user_tokens)))
        /\ (Len(expected_tokens) = Len(user_tokens) /\ expected_tokens # user_tokens) =>
             call.result.wrong_answer_reason =
               SomeStr(<<"Expected \"">> \o expected_tokens[first] \o <<"\", got \"">>
                         \o user_tokens[first] \o <<"\" at token ">> \o str(first))

\* The numbers of tokens differ and the first tokens differ as well: the
\* reason is the one of the numbers.
C24_Witness ==
  /\ called_function("CheckerTokens.check")
  /\ tokens_of(call.args[2]) = << <<"n", "o">>, <<"O">> >>
  /\ tokens_of(call.args[3]) = << <<"N", "O">> >>
  /\ call.result.wrong_answer_reason
       = SomeStr(<<"Expected ", "2", " tokens, got ", "1">>)

\* A token in lower case, on the letters of the tokens followed here.
lower_case(token) ==
  [k \in 1..Len(token) |->
     IF token[k] = "N" THEN "n" ELSE IF token[k] = "O" THEN "o" ELSE token[k]]

lower_cases(tokens) == [k \in 1..Len(tokens) |-> lower_case(tokens[k])]

\* C25: if a token of the user output is not yes or no in some case, the
\* yes/no checker answers wrong, naming the first such token in lower case
\* and its 1-based index, whatever the expected output; otherwise its result
\* is that of the token checker on both outputs in lower case, which accepts
\* outputs that differ in case only.
C25_YesNoChecker ==
  called_function("CheckerYesNo.check") =>
    LET expected_tokens == tokens_of(call.args[2])
        user_tokens == tokens_of(call.args[3])
        other == {k \in 1..Len(user_tokens) : user_tokens[k] \notin YesNoSpellings}
        first == CHOOSE k \in other : \A j \in other : k <= j
    IN  IF other # {}
        THEN call.result =
               CheckerResult("WRONG_ANSWER",
                 SomeStr(<<"Expected \"yes\"/\"no\", got \"">> \o lower_case(user_tokens[first])
                           \o <<"\" at token ">> \o str(first)))
        ELSE /\ call.result =
                  CheckerTokens_check(<<>>, lower(call.args[2]), lower(call.args[3]))
             /\ lower_cases(expected_tokens) = lower_cases(user_tokens)
                  => call.result.result_type = "ACCEPTED"

\* Outputs that differ in case and whitespace only are accepted.
C25_Witness ==
  /\ called_function("CheckerYesNo.check")
  /\ call.args[2] = <<"N", "O", "\n", "n", "o">>
  /\ call.args[3] = <<"n", "o", " ", "N", "O">>
  /\ call.result.result_type = "ACCEPTED"

\* C26: the custom checker's result is CHECKER_RUNTIME_ERROR for a runtime
\* error of its binary, CHECKER_TIME_LIMIT_EXCEEDED when it exceeds the time
\* limit, ACCEPTED for a successful run that wrote nothing and WRONG_ANSWER
\* with the output as the reason for a successful run that wrote something;
\* what a binary wrote that exited nonzero or was stopped decides nothing.
C26_CustomCheckerMapping ==
  called_function("CheckerCustom.check") =>
    /\ Len(call.runs) = 1
    /\ LET ran == call.runs[1] IN
         /\ ran.result.result_type = "RUNTIME_ERROR" =>
              call.result = CheckerResult("CHECKER_RUNTIME_ERROR", NoneStr)
         /\ ran.result.result_type = "TIME_LIMIT_EXCEEDED" =>
              call.result = CheckerResult("CHECKER_TIME_LIMIT_EXCEEDED", NoneStr)
         /\ (ran.result.result_type = "SUCCESS" /\ ran.process.stdout = <<>>) =>
              call.result = CheckerResult("ACCEPTED", NoneStr)
         /\ (ran.result.result_type = "SUCCESS" /\ ran.process.stdout # <<>>) =>
              call.result = CheckerResult("WRONG_ANSWER", SomeStr(ran.process.stdout))
         /\ (ran.process.stopped \/ ran.process.return_code # 0) =>
              /\ call.result.result_type
                   \in {"CHECKER_RUNTIME_ERROR", "CHECKER_TIME_LIMIT_EXCEEDED"}
              /\ call.result.wrong_answer_reason = NoneStr

\* The binary wrote a reason and exited with code 1.
C26_Witness ==
  /\ called_function("CheckerCustom.check")
  /\ ~call.runs[1].process.stopped
  /\ call.runs[1].process.return_code = 1
  /\ call.runs[1].process.stdout = <<"n", "o">>
  /\ call.result = CheckerResult("CHECKER_RUNTIME_ERROR", NoneStr)

\* C27: the input of the checker binary is the testcase input, the line
\* "---", the user output, the line "---" and the expected output, and
\* nothing else.
C27_CustomCheckerStdin ==
  called_function("CheckerCustom.check") =>
    call.runs[1].io_input =
      call.args[1] \o <<"\n", "-", "-", "-", "\n">> \o call.args[3]
        \o <<"\n", "-", "-", "-", "\n">> \o call.args[2]

\* The expected output is itself the delimiter and the user output is empty.
C27_Witness ==
  /\ called_function("CheckerCustom.check")
  /\ call.args[1] = <<"1", "\n">>
  /\ call.args[2] = <<"-", "-", "-">>
  /\ call.args[3] = <<>>
  /\ call.runs[1].io_input
       = <<"1", "\n", "\n", "-", "-", "-", "\n", "\n", "-", "-", "-", "\n", "-", "-", "-">>

\* ------------------------------------------------------------------------
\* Properties of Runner.run: the deadlines and the final report.

C29_RunClassification ==
  called_function("Execution.run") =>
    LET process == call.runs[1].process IN
      /\ call.result.result_type = "SUCCESS"
           <=> (~process.stopped /\ process.return_code = 0)
      /\ call.result.result_type = "SUCCESS" => call.result.output = process.stdout
      /\ call.result.result_type = "TIME_LIMIT_EXCEEDED" <=> process.stopped
      /\ (~process.stopped /\ process.return_code # 0)
           => call.result.result_type = "RUNTIME_ERROR"

executions_of(function) ==
  {k \in 1..Len(call.runs) : call.runs[k].function = function}

finished_slots(verdicts, initial) == {i \in 1..Len(verdicts) : verdicts[i] # initial}

put_indices(tasks) == {i \in 1..Len(tasks) : tasks[i] = "done"}

\* The indices on the queue are distinct, each is the index of a task that
\* has written its slot and has put, and with the drained ones they are as
\* many as the tasks that have put.
PutOnceAfterWrite(queue, drained, tasks, verdicts, initial) ==
  /\ \A k, l \in 1..Len(queue) : queue[k] = queue[l] => k = l
  /\ \A k \in 1..Len(queue) : queue[k] \in put_indices(tasks) \cap finished_slots(verdicts, initial)
  /\ put_indices(tasks) \subseteq finished_slots(verdicts, initial)
  /\ Len(queue) + drained = Cardinality(put_indices(tasks))

\* A step that lengthens the queue appends the index of one task, which had
\* written its slot and had not put; a task that has put stays so.
PutStep(queue, queue_next, tasks, tasks_next, verdicts, initial) ==
  /\ Len(queue_next) > Len(queue) =>
       \E i \in finished_slots(verdicts, initial) \ put_indices(tasks) :
         /\ queue_next = Append(queue, i)
         /\ put_indices(tasks_next) = put_indices(tasks) \cup {i}
  /\ Len(tasks_next) = Len(tasks) => put_indices(tasks) \subseteq put_indices(tasks_next)

run_task_pcs(tasks) == [i \in 1..Len(tasks) |-> tasks[i].pc]

edit_rounds == last_call.value.rounds
edit_only_necessary == last_call.mode[1]
edit_shortcircuit == last_call.mode[2]
edit_returned == called("edit_multitests") /\ last_call.raises = None

\* The files the output round sees: the input as the input round left it
\* (the output round does not touch it), the output as it was before.
after_input_round ==
  IOPair(multiple_testcases.io_input, edit_rounds[1].considered.io_output)

\* In only-necessary mode a file whose check is True when its round comes is
\* neither offered nor opened; the check of the output is the one on the
\* files the input round left.
NecessaryOnly ==
  /\ edit_rounds[1].io_file = "input"
  /\ Len(edit_rounds) = 2 =>
       /\ edit_rounds[2].io_file = "output"
       /\ edit_rounds[2].considered = after_input_round
       /\ edit_rounds[2].io_file_check
            = check_multitests(entire_testcase, after_input_round)[2]
  /\ \A k \in 1..Len(edit_rounds) :
       /\ edit_rounds[k].opened => edit_rounds[k].offered
       /\ edit_only_necessary =>
            (edit_rounds[k].io_file_check => ~edit_rounds[k].offered)

RunCommandWith(no_override) ==
  \/ \E time_limit_arg \in {NoTimeLimit, runner_call'.time_limit},
        multitest_mode \in MultitestModeArgs, checker_name \in {None, runner_call'.checker} :
        CommandRun(time_limit_arg, multitest_mode, checker_name, no_override)
  \/ \E time_limit_arg \in {NoTimeLimit, runner_call'.time_limit},
        checker_name \in {None, runner_call'.checker} :
        RunSplit(time_limit_arg, checker_name, no_override)

is_prefix_of(part, list) ==
  /\ Len(part) <= Len(list)
  /\ \A i \in 1..Len(part) : part[i] = list[i]
is_suffix_of(part, list) ==
  /\ Len(part) <= Len(list)
  /\ \A i \in 1..Len(part) : part[i] = list[Len(list) - Len(part) + i]

\* What a deletion that is to leave the first kept testcases does: when the
\* user confirms, delete() is called on exactly the testcases after them and
\* the list is the first kept ones, unchanged; when the user declines,
\* delete() is called on none and the list is unchanged.  The user is asked
\* about the testcases after the first kept ones.
SuffixDeleted(before, kept, confirm, done) ==
  /\ Len(done.asked) = Len(before) - kept /\ is_suffix_of(done.asked, before)
  /\ confirm =>
       /\ Len(done.all_testcases) = kept /\ is_prefix_of(done.all_testcases, before)
       /\ Len(done.deleted) = Len(before) - kept /\ is_suffix_of(done.deleted, before)
  /\ ~confirm => done.all_testcases = before /\ done.deleted = <<>>

C36_ValidatedSplittable ==
  validated =>
    LET multitests == get_multitests(entire_testcase, multiple_testcases)
    IN  /\ multitests.raises = None
        /\ Len(multitests.value) = int(count_line)

\* The run units get_testcases(MULTIPLE) returns for the testcase, and the
\* whitespace-separated tokens of their inputs, each without the count line
\* get_multitests put in front of it, and of their outputs, in order.
multiple_units ==
  get_testcases(testcase_id, testcase_type, entire_testcase, multiple_testcases, "MULTIPLE")

subtest_input_tokens ==
  split_whitespace(concat([k \in 1..Len(multiple_units.value) |->
     removeprefix(multiple_units.value[k].io_input, <<"1", "\n">>)]))

subtest_output_tokens ==
  split_whitespace(concat([k \in 1..Len(multiple_units.value) |->
     multiple_units.value[k].io_output]))

\* C37: for every validated scraped testcase, get_testcases(MULTIPLE) returns
\* subtests such that the token T followed by the tokens of all subtest
\* inputs, each without its injected count line, is the token sequence of the
\* entire input, and the tokens of all subtest outputs in order are the token
\* sequence of the entire output.
C37_NoDataLost ==
  validated =>
    /\ multiple_units.raises = None
    /\ <<count_line>> \o subtest_input_tokens
         = split_whitespace(read_file(entire_testcase.io_input))
    /\ subtest_output_tokens = split_whitespace(read_file(entire_testcase.io_output))

\* What set_multitest_files() with no split arguments does to one multitest
\* file: a file that starts with the header and has the tokens of the entire
\* file is left as it is, any other is the header and the entire content.
HeaderFixed(multitest_file, multitest_file_next, entire_file) ==
  IF header_and_tokens(multitest_file, entire_file)
  THEN multitest_file_next = multitest_file
  ELSE /\ multitest_file_next.exists
       /\ read_file(multitest_file_next) = MULTITEST_HEADER \o read_file(entire_file)

\* C38: set_multitest_files() with no split arguments leaves unchanged every
\* multitest file that starts with the header and whose token stream is the one
\* of the entire testcase, rewrites every other multitest file to the header
\* and the entire content, afterwards check_multitest_files() is (True, True),
\* and a second call changes nothing.  The steps are the calls of
\* set_multitest_files(), the only ones that leave its name in last_call.
C38_SetMultitestFilesFixes ==
  [][last_call'.op = "set_multitest_files" =>
       /\ HeaderFixed(multiple_testcases.io_input, multiple_testcases'.io_input,
                      entire_testcase.io_input)
       /\ HeaderFixed(multiple_testcases.io_output, multiple_testcases'.io_output,
                      entire_testcase.io_output)
       /\ entire_testcase' = entire_testcase
       /\ check_multitest_files(entire_testcase', multiple_testcases') = <<TRUE, TRUE>>
       /\ set_multitest_files(entire_testcase', multiple_testcases', NoneList, NoneList)
            = multiple_testcases']_vars

\* A split the user typed into the input survived the call, and an output
\* the heuristics had split did as well.
C38_Witness ==
  /\ called("set_multitest_files")
  /\ edits = 1
  /\ ~as_seeded
  /\ read_file(multiple_testcases.io_input)
       # MULTITEST_HEADER \o read_file(entire_testcase.io_input)
  /\ read_file(multiple_testcases.io_output)
       # MULTITEST_HEADER \o read_file(entire_testcase.io_output)

\* The loop of set_multitest_mode() is at a testcase, and what
\* set_multitest_mode() returned in a step that ends the loop: the set
\* command stores MULTIPLE and the run command calls Runner.run with it only
\* if it returned True.
in_split_loop == problem_pc \in {"run_split", "set_split"}

split_returned_next ==
  IF problem_pc = "set_split" THEN testcase_mode' = "MULTIPLE"
  ELSE runner_call'.testcase_mode = "MULTIPLE"

multitest_valid(tc) == checks_check_multitests(tc.multitest) = <<TRUE, TRUE>>

\* C39: set_multitest_mode() returns True iff check_multitest_mode() holds of
\* the set when it returns.  On a set that is valid it returns True and no
\* testcase is offered; otherwise it walks the scraped testcases in order,
\* one edit_multitests(True, True) each, which returns True iff both files of
\* the testcase are valid at its return; it goes on to the next testcase only
\* after a True, returns False at the first testcase left invalid without
\* touching the later ones, and returns True after the last.
C39_SetMultitestMode ==
  /\ [](\A m \in MultitestChecks : \A o \in checks_edit_multitests(m, TRUE, TRUE) :
          o.result <=> (checks_check_multitests(o.multitest) = <<TRUE, TRUE>>))
  /\ [](in_split_loop =>
          /\ cursor \in 1..Len(get_scraped_testcases(all_testcases))
          /\ \A k \in 1..(cursor - 1) :
               multitest_valid(all_testcases[get_scraped_testcases(all_testcases)[k]]))
  /\ [][/\ (in_split_loop /\ problem_pc' = problem_pc) =>
            /\ multitest_valid(all_testcases'[cursor_testcase])
            /\ cursor' = cursor + 1
        /\ (in_split_loop /\ problem_pc' # problem_pc) =>
            /\ split_returned_next <=> TestCaseSet_check_multitest_mode(all_testcases')
            /\ split_returned_next <=>
                 (cursor_is_last /\ multitest_valid(all_testcases'[cursor_testcase]))
        /\ in_split_loop =>
            /\ Len(all_testcases') = Len(all_testcases)
            /\ \A i \in 1..Len(all_testcases) :
                 i # cursor_testcase => all_testcases'[i] = all_testcases[i]
        /\ (~in_split_loop /\ problem_pc' \in {"run_split", "set_split"}) =>
            /\ ~TestCaseSet_check_multitest_mode(all_testcases)
            /\ cursor' = 1
            /\ all_testcases' = all_testcases
        /\ \A checker_name \in CheckerArgs :
            /\ CommandSet(NoTimeLimit, "m", checker_name) =>
                 /\ TestCaseSet_check_multitest_mode(all_testcases)
                 /\ all_testcases' = all_testcases
                 /\ testcase_mode' = "MULTIPLE"
            /\ (\E no_override \in BOOLEAN :
                  CommandRun(NoTimeLimit, "m", checker_name, no_override)) =>
                 /\ TestCaseSet_check_multitest_mode(all_testcases)
                 /\ all_testcases' = all_testcases
                 /\ runner_call'.testcase_mode = "MULTIPLE"]_vars

\* The loop validated the first scraped testcase and is at the second, which
\* is not valid.
C39_Witness ==
  /\ problem_pc = "set_split"
  /\ cursor = 2
  /\ multitest_valid(all_testcases[1])
  /\ ~multitest_valid(all_testcases[2])

\* The results of the two heuristics on the arguments of the call, and the
\* split attempt_multitest_output would return if it tried the yes/no
\* heuristic first.
call_one_line == attempt_multitest_output_one_line(call.args[1], call.args[2])
call_yes_no == attempt_multitest_output_yes_no(call.args[1], call.args[2])
call_yes_no_first == IF ~call_yes_no.is_none THEN call_yes_no ELSE call_one_line

\* C40: for every output and every T, if the one-line heuristic and the
\* yes/no heuristic both succeed they return the same list of subtest
\* outputs, so attempt_multitest_output returns the split it would return if
\* it tried the yes/no heuristic first.
C40_HeuristicsAgree ==
  called_function("attempt_multitest_output") =>
    /\ (~call_one_line.is_none /\ ~call_yes_no.is_none) =>
         call_one_line.list = call_yes_no.list
    /\ call.result = call_yes_no_first

\* Both heuristics succeed on an output of three yes/no lines for T = 3.
C40_Witness ==
  /\ called_function("attempt_multitest_output")
  /\ call.args = << <<"Y", "E", "S", "\n", "N", "O", "\n", "N", "O">>, 3 >>
  /\ ~call_one_line.is_none
  /\ ~call_yes_no.is_none
  /\ call.result = SomeList(<< <<"Y", "E", "S">>, <<"N", "O">>, <<"N", "O">> >>)

====
